---- MODULE Spec2Model ----
(***************************************************************************)
(* A model of the NES core of masonedmison/nes: the CPU-side bus           *)
(* (src/bus.rs), the PPU register ports and tick loop (src/ppu/ppu.rs),    *)
(* the PPU registers (src/ppu/registers.rs) and the PPU-side bus           *)
(* (src/ppu/ppubus.rs).                                                    *)
(*                                                                         *)
(* Arrays are kept sparse: a memory is a function from the indices that    *)
(* hold a non-zero byte to that byte; every other index of the array holds *)
(* 0.  Array lengths are checked where the code indexes.                   *)
(*                                                                         *)
(* A Rust panic (index out of bounds, panic!, todo!, an arithmetic         *)
(* overflow in a build with overflow checks) ends the program: fault       *)
(* becomes "panic" and no operation is enabled afterwards.                 *)
(***************************************************************************)
EXTENDS Integers, Sequences, FiniteSets, TLC

\* ------------------------------------------------------------------ bounds

\* Number of bus operations (reads, writes, ROM loads) in one run.
MaxOps == 3

\* ------------------------------------------------------- program constants

CPU_INTERNAL_RAM == 2048
ROM_BANK_SIZE == 16384
OAM_SIZE == 256
CHR_ROM_LEN == 8191
NAME_TABLES_LEN == 2048
PALETTE_TABLE_LEN == 32
BACKGROUND_COLOR == 16128
LAST_CYCLE == 340
LAST_SCANLINE == 261
VBLANK_SCANLINE == 241
FRAME_WIDTH == 256
FRAME_HEIGHT == 240
SYSTEM_PALLETE_LEN == 64

\* Bit positions of the flags the model reads.
VRAM_ADDR_INCR == 2
BACKGROUND_PATTERN_TABLE == 4
GENERATE_NMI == 7
VBLANK_START == 7

\* Flag locations (1-indexed) of the CPU's status register.
CARRY_FLAG == 1
ZERO_FLAG == 2
INTERRUPT_DISABLE == 3
DECIMAL_MODE == 4
BRK_CMD == 5
OVERFLOW_FLAG == 7
NEGATIVE_FLAG == 8

\* Interrupt handlers.
POWER_RESET_IH == \hFFFC
BRK_IH == \hFFFE

\* ------------------------------------------------------------- bit helpers

RECURSIVE BitAnd(_, _)
BitAnd(a, b) ==
    IF a = 0 \/ b = 0 THEN 0
    ELSE (IF a % 2 = 1 /\ b % 2 = 1 THEN 1 ELSE 0) + 2 * BitAnd(a \div 2, b \div 2)

RECURSIVE BitOr(_, _)
BitOr(a, b) ==
    IF a = 0 THEN b
    ELSE IF b = 0 THEN a
    ELSE (IF a % 2 = 1 \/ b % 2 = 1 THEN 1 ELSE 0) + 2 * BitOr(a \div 2, b \div 2)

RECURSIVE BitXor(_, _)
BitXor(a, b) ==
    IF a = 0 THEN b
    ELSE IF b = 0 THEN a
    ELSE (IF a % 2 # b % 2 THEN 1 ELSE 0) + 2 * BitXor(a \div 2, b \div 2)

\* bitflags contains(FLAG) for a one-bit flag at position n.
contains(bits, n) == (bits \div (2 ^ n)) % 2 = 1

\* bitflags set(FLAG, value) for a one-bit flag at position n.
set_flag(bits, n, value) ==
    IF value THEN BitOr(bits, 2 ^ n) ELSE bits - (IF contains(bits, n) THEN 2 ^ n ELSE 0)

\* ----------------------------------------------------------- sparse arrays

EmptyMem == [j \in {} |-> 0]

MemGet(m, i) == IF i \in DOMAIN m THEN m[i] ELSE 0

MemSet(m, i, v) ==
    IF v = 0 THEN [j \in (DOMAIN m) \ {i} |-> m[j]]
    ELSE [j \in (DOMAIN m) \cup {i} |-> IF j = i THEN v ELSE m[j]]

\* ------------------------------------------------------------------- state

VARIABLES
    bus,              \* Bus: ram, rom_bank1, rom_bank2 (the PPU it owns is ppu)
    ppu,              \* PPU: registers, OAM, counters, PPUBus, frame
    overflow_checks,  \* the build: TRUE panics on integer overflow, FALSE wraps
    fault,            \* "none", or "panic" once the program has panicked
    tick_remaining,   \* PPU::tick's `remaining` while a tick call is running, else 0
    last,             \* history: the calls made so far (trace), the last step
                      \* taken (step) and the PPU as it was before it (pre)
    cpu,              \* CPU: pc, sp, accum, rx, ry, st (the Bus it owns is bus)
    insn,             \* history of the last instruction: the CPU before it (pre),
                      \* whether its opcode was read (fetched), the bytes after
                      \* the opcode (b1, b2), its bus accesses (log); and the
                      \* CPU as the run started (start)
    message           \* the values formatted into the message of the panic that
                      \* Bus or CPU code raised, in order; <<>> when none

vars == <<bus, ppu, overflow_checks, fault, tick_remaining, last, cpu, insn, message>>

\* Cartridge program images: 0 is the zeroed bank of Bus::new, 1 and 2 are two
\* 16KB images with distinct bytes.
RomImages == {1, 2}
RomByte(img, offset) ==
    IF img = 0 THEN 0 ELSE (offset * 7 + (offset \div 256) * 3 + img * 17) % 256

\* ------------------------------------------------------------------ PPUBus

PPUBus_new ==
    [chr_rom |-> EmptyMem, name_tables |-> EmptyMem, palette_table |-> EmptyMem,
     mirroring |-> "Horizontal"]

load_chr_rom(b, chr_rom, mirroring) ==
    [b EXCEPT !.chr_rom = chr_rom, !.mirroring = mirroring]

\* A palette mirror without the four background aliases.
mirror_palette_addr_no_alias(addr) == (addr - \h3F00) % 32

mirror_palette_addr(addr) ==
    LET a == (addr - \h3F00) % 32
    IN IF a \in {\h10, \h14, \h18, \h1C} THEN a - \h10 ELSE a

\* A nametable mirror with the two schemes exchanged.  Returns [fault, ret].
mirror_nametable_addr_exchanged(addr, mirroring) ==
    IF ~(addr \in \h2000..\h3EFF) THEN [fault |-> "panic", ret |-> 0]
    ELSE
    LET base == IF addr <= \h2FFF THEN addr - \h2000 ELSE addr - \h3000
        table == base \div \h400
        idx == base % \h400
    IN CASE table = 0 -> [fault |-> "none", ret |-> base]
         [] table \in {1, 3} /\ mirroring = "Horizontal" -> [fault |-> "none", ret |-> \h400 + idx]
         [] table = 2 /\ mirroring = "Horizontal" -> [fault |-> "none", ret |-> idx]
         [] table = 1 /\ mirroring = "Vertical" -> [fault |-> "none", ret |-> idx]
         [] table \in {2, 3} /\ mirroring = "Vertical" -> [fault |-> "none", ret |-> \h400 + idx]
         [] OTHER -> [fault |-> "panic", ret |-> 0]

\* Returns [fault, ret].
mirror_nametable_addr(addr, mirroring) ==
    IF ~(addr \in \h2000..\h3EFF) THEN [fault |-> "panic", ret |-> 0]
    ELSE
    LET base == IF addr <= \h2FFF THEN addr - \h2000 ELSE addr - \h3000
        table == base \div \h400
        idx == base % \h400
    IN CASE table = 0 -> [fault |-> "none", ret |-> base]
         [] table \in {1, 3} /\ mirroring = "Vertical" -> [fault |-> "none", ret |-> \h400 + idx]
         [] table = 2 /\ mirroring = "Vertical" -> [fault |-> "none", ret |-> idx]
         [] table = 1 /\ mirroring = "Horizontal" -> [fault |-> "none", ret |-> idx]
         [] table \in {2, 3} /\ mirroring = "Horizontal" -> [fault |-> "none", ret |-> \h400 + idx]
         [] OTHER -> [fault |-> "panic", ret |-> 0]

\* Returns [fault, ret].
PPUBus_read_memory(b, addr) ==
    CASE addr \in 0..\h1FF ->
            [fault |-> IF addr < CHR_ROM_LEN THEN "none" ELSE "panic",
             ret |-> MemGet(b.chr_rom, addr)]
      [] addr \in \h2000..\h3EFF ->
            LET m == mirror_nametable_addr(addr, b.mirroring)
            IN IF m.fault # "none" \/ m.ret >= NAME_TABLES_LEN
               THEN [fault |-> "panic", ret |-> 0]
               ELSE [fault |-> "none", ret |-> MemGet(b.name_tables, m.ret)]
      [] addr \in \h3F00..\h3FFF ->
            LET a == mirror_palette_addr(addr)
            IN IF a >= PALETTE_TABLE_LEN THEN [fault |-> "panic", ret |-> 0]
               ELSE [fault |-> "none", ret |-> MemGet(b.palette_table, a)]
      [] OTHER -> [fault |-> "panic", ret |-> 0]

\* Returns [fault, bus].
PPUBus_write_memory(b, addr, value) ==
    CASE addr \in 0..\h1FF ->
            IF addr < CHR_ROM_LEN
            THEN [fault |-> "none", bus |-> [b EXCEPT !.chr_rom = MemSet(@, addr, value)]]
            ELSE [fault |-> "panic", bus |-> b]
      [] addr \in \h2000..\h3EFF ->
            LET m == mirror_nametable_addr(addr, b.mirroring)
            IN IF m.fault # "none" \/ m.ret >= NAME_TABLES_LEN
               THEN [fault |-> "panic", bus |-> b]
               ELSE [fault |-> "none",
                     bus |-> [b EXCEPT !.name_tables = MemSet(@, m.ret, value)]]
      [] addr \in \h3F00..\h3FFF ->
            LET a == mirror_palette_addr(addr)
            IN IF a >= PALETTE_TABLE_LEN THEN [fault |-> "panic", bus |-> b]
               ELSE [fault |-> "none",
                     bus |-> [b EXCEPT !.palette_table = MemSet(@, a, value)]]
      [] OTHER -> [fault |-> "panic", bus |-> b]

\* --------------------------------------------------------------- registers

\* u8 << n: a shift by the full width or more overflows; a build with overflow
\* checks panics, one without masks the shift amount to the width.
shl_u8(v, n) ==
    IF n >= 8
    THEN IF overflow_checks THEN [fault |-> "panic", ret |-> 0]
         ELSE [fault |-> "none", ret |-> (v * (2 ^ (n % 8))) % 256]
    ELSE [fault |-> "none", ret |-> (v * (2 ^ n)) % 256]

PPUADDR_new == <<0, 0>>

\* value is (hi, lo).  Returns [fault, ret].
PPUADDR_get(value) ==
    LET hi == shl_u8(value[1], 8)
    IN IF hi.fault # "none" THEN [fault |-> "panic", ret |-> 0]
       ELSE [fault |-> "none", ret |-> BitAnd(BitOr(hi.ret, value[2]), \h3FFF)]

PPUADDR_set(data) == <<(data \div 256) % 256, data % 256>>

PPUADDR_update(value, data, w) ==
    IF w THEN <<value[1], data>> ELSE <<data, value[2]>>

\* Returns [fault, value].
PPUADDR_increment_by(value, bit) ==
    LET incr_by == IF bit THEN 32 ELSE 1
        g == PPUADDR_get(value)
    IN IF g.fault # "none" THEN [fault |-> "panic", value |-> value]
       ELSE [fault |-> "none", value |-> PPUADDR_set(g.ret + incr_by)]

PPUSCROLL_new == <<0, 0>>

\* value is (x scroll, y scroll).
PPUSCROLL_update(value, data, w) ==
    IF w THEN <<value[1], data>> ELSE <<data, value[2]>>

\* --------------------------------------------------------------------- PPU

InternalRegisters_default ==
    [coarse_col |-> 0, coarse_row |-> 0, fine_col |-> 0, fine_row |-> 0,
     nt_select |-> 0, w |-> FALSE]

PPU_new ==
    [bus |-> PPUBus_new, curr_frame |-> EmptyMem, oam |-> EmptyMem,
     ppuctrl |-> 0, ppumask |-> 0, ppustatus |-> 0, oamaddr |-> 0, oamdata |-> 0,
     ppuscroll |-> PPUSCROLL_new, ppuaddr |-> PPUADDR_new, ppudata |-> 0,
     nmi_pin |-> FALSE, cycles |-> 0, scanline |-> 0,
     internal_reg |-> InternalRegisters_default]

\* Every PPU port below returns [fault, ppu, ret].
Ok(p, r) == [fault |-> "none", ppu |-> p, ret |-> r]
Panic(p) == [fault |-> "panic", ppu |-> p, ret |-> 0]

\* A level-triggered PPUCTRL write: the previous generate-NMI bit is not consulted.
write_ppu_ctrl_level(p, data) ==
    IF contains(data, GENERATE_NMI) /\ contains(p.ppustatus, VBLANK_START)
    THEN Ok([p EXCEPT !.ppuctrl = data, !.nmi_pin = TRUE], 0)
    ELSE Ok([p EXCEPT !.ppuctrl = data], 0)

write_ppu_ctrl_any_time(p, data) ==
    IF ~contains(p.ppuctrl, GENERATE_NMI) /\ contains(data, GENERATE_NMI)
    THEN Ok([p EXCEPT !.ppuctrl = data, !.nmi_pin = TRUE], 0)
    ELSE Ok([p EXCEPT !.ppuctrl = data], 0)

write_ppu_ctrl(p, data) ==
    LET prev_nmi_out == contains(p.ppuctrl, GENERATE_NMI)
        p1 == [p EXCEPT !.ppuctrl = data]
    IN IF ~prev_nmi_out /\ contains(p1.ppuctrl, GENERATE_NMI)
          /\ contains(p1.ppustatus, VBLANK_START)
       THEN Ok([p1 EXCEPT !.nmi_pin = TRUE], 0)
       ELSE Ok(p1, 0)

write_ppumask(p, data) == Ok([p EXCEPT !.ppumask = data], 0)

\* A PPUSTATUS read that leaves the write latch alone.
read_ppustatus_keeps_latch(p) ==
    Ok([p EXCEPT !.ppustatus = set_flag(@, VBLANK_START, FALSE)],
       set_flag(p.ppustatus, VBLANK_START, FALSE))

read_ppustatus(p) ==
    LET p1 == [p EXCEPT !.ppustatus = set_flag(@, VBLANK_START, FALSE),
                        !.internal_reg.w = FALSE]
    IN Ok(p1, p1.ppustatus)

write_oamaddr(p, data) == Ok([p EXCEPT !.oamaddr = data], 0)

read_oamdata(p) == Ok(p, p.oamdata)

write_oamdata(p, data) ==
    LET p1 == [p EXCEPT !.oamdata = data]
    IN IF p1.oamaddr = 255
       THEN IF overflow_checks THEN Panic(p1) ELSE Ok([p1 EXCEPT !.oamaddr = 0], 0)
       ELSE Ok([p1 EXCEPT !.oamaddr = @ + 1], 0)

\* A PPUSCROLL write that does not flip the shared latch.
write_ppuscroll_own_latch(p, data) ==
    Ok([p EXCEPT !.ppuscroll = PPUSCROLL_update(@, data, p.internal_reg.w)], 0)

write_ppuscroll(p, data) ==
    Ok([p EXCEPT !.ppuscroll = PPUSCROLL_update(@, data, p.internal_reg.w),
                 !.internal_reg.w = ~p.internal_reg.w], 0)

write_ppuaddr(p, data) ==
    Ok([p EXCEPT !.ppuaddr = PPUADDR_update(@, data, p.internal_reg.w),
                 !.internal_reg.w = ~p.internal_reg.w], 0)

increment_ppu_addr(p) ==
    LET i == PPUADDR_increment_by(p.ppuaddr, contains(p.ppuctrl, VRAM_ADDR_INCR))
    IN IF i.fault # "none" THEN Panic(p) ELSE Ok([p EXCEPT !.ppuaddr = i.value], 0)

read_ppudata(p) ==
    LET read == p.ppudata
        g == PPUADDR_get(p.ppuaddr)
        r == PPUBus_read_memory(p.bus, g.ret)
        p1 == [p EXCEPT !.ppudata = r.ret]
        i == increment_ppu_addr(p1)
    IN IF g.fault # "none" \/ r.fault # "none" THEN Panic(p)
       ELSE IF i.fault # "none" THEN Panic(p1)
       ELSE Ok(i.ppu, read)

write_ppudata(p, data) ==
    LET g == PPUADDR_get(p.ppuaddr)
        r == PPUBus_write_memory(p.bus, g.ret, data)
        p1 == [p EXCEPT !.bus = r.bus]
        i == increment_ppu_addr(p1)
    IN IF g.fault # "none" \/ r.fault # "none" THEN Panic(p)
       ELSE IF i.fault # "none" THEN Panic(p1)
       ELSE Ok(i.ppu, 0)

\* bytes is a sequence; OAM index oamaddr + k - 1 takes bytes[k] while both the
\* index range oamaddr..=255 and the sequence last.
write_dma(p, bytes) ==
    LET n == IF Len(bytes) < OAM_SIZE - p.oamaddr THEN Len(bytes) ELSE OAM_SIZE - p.oamaddr
        written == p.oamaddr..(p.oamaddr + n - 1)
        at(j) == IF j \in written THEN bytes[j - p.oamaddr + 1] ELSE MemGet(p.oam, j)
        dom == {j \in (DOMAIN p.oam) \cup written : at(j) # 0}
    IN Ok([p EXCEPT !.oam = [j \in dom |-> at(j)]], 0)

\* ------------------------------------------------------ background fetch

\* PPUCTRL's base-nametable select (the two low bits).
get_base_nt(bits) == bits % 4

\* The fixed colour table: 64 RGB triples, here one distinct triple per index.
SYSTEM_PALLETE(i) == <<4 * i + 1, 4 * i + 2, 4 * i + 3>>

\* Frame::set_pixel: three consecutive bytes from y * WIDTH + x.
set_pixel(data, x, y, rgb) ==
    LET addr == y * FRAME_WIDTH + x
    IN MemSet(MemSet(MemSet(data, addr, rgb[1]), addr + 1, rgb[2]), addr + 2, rgb[3])

\* The pixel closure for bit n: look the colour up, set the pixel, step fine_col;
\* then the passes for n-1 .. 0.
plot(p, entry) ==
    [p EXCEPT !.curr_frame =
        set_pixel(@, p.internal_reg.fine_col, p.internal_reg.fine_row,
                  SYSTEM_PALLETE(entry))]

step_fine_col(p) == [p EXCEPT !.internal_reg.fine_col = (@ + 1) % 256]

RECURSIVE draw_pixels(_, _, _, _, _)
RECURSIVE draw_next(_, _, _, _, _)
draw_next(plotted, n, lo_plane, hi_plane, palette) ==
    IF plotted.internal_reg.fine_col = 255 /\ overflow_checks THEN Panic(plotted)
    ELSE IF n = 0 THEN Ok(step_fine_col(plotted), 0)
    ELSE draw_pixels(step_fine_col(plotted), n - 1, lo_plane, hi_plane, palette)

draw_entry(p, n, lo_plane, hi_plane, palette, entry) ==
    IF entry >= SYSTEM_PALLETE_LEN THEN Panic(p)
    ELSE draw_next(plot(p, entry), n, lo_plane, hi_plane, palette)

draw_pixels(p, n, lo_plane, hi_plane, palette) ==
    draw_entry(p, n, lo_plane, hi_plane, palette,
               palette[((hi_plane \div (2 ^ n)) % 2) * 2 + ((lo_plane \div (2 ^ n)) % 2) + 1])

base_nt(bits) ==
    CASE get_base_nt(bits) = 0 -> \h2000
      [] get_base_nt(bits) = 1 -> \h2400
      [] get_base_nt(bits) = 2 -> \h2800
      [] OTHER -> \h2C00

\* The 2-bit palette group of the tile's quadrant, as the palette address.
palette_choice(ir, attr) ==
    LET qx == (ir.coarse_col % 4) \div 2
        qy == (ir.coarse_row % 4) \div 2
        palette_idx == CASE qx = 0 /\ qy = 0 -> attr % 4
                         [] qx = 1 /\ qy = 0 -> (attr \div 4) % 4
                         [] qx = 0 /\ qy = 1 -> (attr \div 16) % 4
                         [] OTHER -> (attr \div 64) % 4
    IN CASE palette_idx = 0 -> \h3F01
         [] palette_idx = 1 -> \h3F05
         [] palette_idx = 2 -> \h3F09
         [] OTHER -> \h3F0D

\* The end of fetch_bg_tile_row: the coarse column advances, wrapping at 31.
advance_coarse(d) ==
    IF d.internal_reg.coarse_col = 31
    THEN IF d.internal_reg.fine_row = 255 /\ overflow_checks
         THEN Panic([d EXCEPT !.internal_reg.fine_col = 0,
                              !.internal_reg.coarse_col = 0,
                              !.internal_reg.coarse_row =
                                  IF d.internal_reg.fine_row % 8 = 0 THEN @ + 1 ELSE @])
         ELSE Ok([d EXCEPT !.internal_reg.fine_col = 0,
                           !.internal_reg.coarse_col = 0,
                           !.internal_reg.coarse_row =
                               IF d.internal_reg.fine_row % 8 = 0 THEN @ + 1 ELSE @,
                           !.internal_reg.fine_row = (@ + 1) % 256], 8)
    ELSE Ok([d EXCEPT !.internal_reg.coarse_col = @ + 1], 8)

fetch_draw(p, c0, c1, c2, c3, lo_plane, hi_plane) ==
    IF c0.fault # "none" \/ c1.fault # "none" \/ c2.fault # "none" \/ c3.fault # "none"
    THEN Panic(p)
    ELSE IF lo_plane.fault # "none" \/ hi_plane.fault # "none" THEN Panic(p)
    ELSE draw_pixels(p, 7, lo_plane.ret, hi_plane.ret, <<c0.ret, c1.ret, c2.ret, c3.ret>>)

fetch_palette(p, chr_addr, choice) ==
    fetch_draw(p, PPUBus_read_memory(p.bus, BACKGROUND_COLOR),
               PPUBus_read_memory(p.bus, choice),
               PPUBus_read_memory(p.bus, choice + 1),
               PPUBus_read_memory(p.bus, choice + 2),
               PPUBus_read_memory(p.bus, chr_addr),
               PPUBus_read_memory(p.bus, chr_addr + 8))

fetch_tile(p, chr_idx, attr) ==
    IF chr_idx.fault # "none" \/ attr.fault # "none" THEN Panic(p)
    ELSE fetch_palette(p,
            (IF contains(p.ppuctrl, BACKGROUND_PATTERN_TABLE) THEN \h1000 ELSE 0)
                + chr_idx.ret,
            palette_choice(p.internal_reg, attr.ret))

finish_fetch(drawn) ==
    IF drawn.fault # "none" THEN drawn ELSE advance_coarse(drawn.ppu)

\* Returns [fault, ppu, ret]; ret is the number of cycles run.
fetch_bg_tile_row(p) ==
    finish_fetch(
        fetch_tile(p,
            PPUBus_read_memory(p.bus,
                (base_nt(p.ppuctrl) + p.internal_reg.coarse_row * 32
                    + p.internal_reg.coarse_col) % 65536),
            PPUBus_read_memory(p.bus,
                base_nt(p.ppuctrl) + \h3C0 + ((p.internal_reg.coarse_row \div 4) * 8)
                    + (p.internal_reg.coarse_col \div 4))))

\* -------------------------------------------------------------------- tick

\* The scanline step of one pass of tick's loop, taken when cycles >= 340.
\* A scanline step whose end of vblank leaves the NMI pin as it is.
advance_scanline_keeps_nmi(p) ==
    IF p.scanline = LAST_SCANLINE THEN [p EXCEPT !.scanline = 0]
    ELSE IF p.scanline + 1 = VBLANK_SCANLINE /\ contains(p.ppuctrl, GENERATE_NMI)
    THEN [p EXCEPT !.scanline = @ + 1, !.nmi_pin = TRUE,
                   !.ppustatus = set_flag(@, VBLANK_START, TRUE)]
    ELSE IF p.scanline + 1 = LAST_SCANLINE
    THEN [p EXCEPT !.scanline = @ + 1, !.ppustatus = set_flag(@, VBLANK_START, FALSE)]
    ELSE [p EXCEPT !.scanline = @ + 1]

advance_scanline(p) ==
    IF p.scanline = LAST_SCANLINE THEN [p EXCEPT !.scanline = 0]
    ELSE
    LET p1 == [p EXCEPT !.scanline = @ + 1]
        p2 == IF p1.scanline = VBLANK_SCANLINE /\ contains(p1.ppuctrl, GENERATE_NMI)
              THEN [p1 EXCEPT !.ppustatus = set_flag(@, VBLANK_START, TRUE),
                              !.nmi_pin = TRUE]
              ELSE p1
    IN IF p2.scanline = LAST_SCANLINE
       THEN [p2 EXCEPT !.ppustatus = set_flag(@, VBLANK_START, FALSE),
                       !.nmi_pin = FALSE]
       ELSE p2

add_cycles(f) ==
    IF f.fault # "none" THEN f ELSE Ok([f.ppu EXCEPT !.cycles = @ + f.ret], 0)

\* tick's `match self.scanline`.
run_scanline(p1) ==
    CASE p1.scanline = 0 -> Ok([p1 EXCEPT !.cycles = @ + 1], 0)
      [] p1.scanline \in 1..256 -> add_cycles(fetch_bg_tile_row(p1))
      [] OTHER -> Panic(p1)

\* One pass of the body of tick's `while remaining > 0`.  Returns [fault, ppu, ret].
tick_pass(p) ==
    IF p.cycles >= LAST_CYCLE
    THEN run_scanline(advance_scanline(p))
    ELSE Ok(p, 0)

\* --------------------------------------------------------------------- Bus

Bus_new == [ram |-> EmptyMem, rom_bank1 |-> 0, rom_bank2 |-> 0]

\* A load that fills the first bank only.
load_rom_first_bank(b, img) == [b EXCEPT !.rom_bank1 = img]

load_rom(b, img) == [b EXCEPT !.rom_bank1 = img, !.rom_bank2 = img]

read_rom(b, addr) ==
    LET offset == (addr - \h8000) % ROM_BANK_SIZE
    IN IF addr < \hC000 THEN RomByte(b.rom_bank1, offset) ELSE RomByte(b.rom_bank2, offset)

read_io_registers(p, reg) ==
    CASE reg = 2 -> read_ppustatus(p)
      [] reg = 4 -> read_oamdata(p)
      [] reg = 7 -> read_ppudata(p)
      [] OTHER -> Panic(p)

write_io_registers(p, reg, data) ==
    CASE reg = 0 -> write_ppu_ctrl(p, data)
      [] reg = 1 -> write_ppumask(p, data)
      [] reg = 3 -> write_oamaddr(p, data)
      [] reg = 4 -> write_oamdata(p, data)
      [] reg = 5 -> write_ppuscroll(p, data)
      [] reg = 6 -> write_ppuaddr(p, data)
      [] reg = 7 -> write_ppudata(p, data)
      [] OTHER -> Panic(p)

\* The source of one DMA byte.  Returns [fault, ret].
oamdma_byte(b, addr) ==
    CASE addr \in 0..\h1FF ->
            [fault |-> "none", ret |-> MemGet(b.ram, BitAnd(addr, \h7FF))]
      [] addr \in \h8000..\hFFFF -> [fault |-> "none", ret |-> read_rom(b, addr)]
      [] OTHER -> [fault |-> "panic", ret |-> 0]

\* The range (page << 8)..(page << 8 | 0xff) excludes its upper end.
oamdma(b, p, page) ==
    LET first == page * 256
        end == BitOr(page * 256, \hFF)
        addrs == first..(end - 1)
        bytes == [k \in 1..(end - first) |-> oamdma_byte(b, first + k - 1).ret]
    IN IF \E addr \in addrs : oamdma_byte(b, addr).fault # "none"
       THEN Panic(p)
       ELSE write_dma(p, bytes)

\* Returns [fault, ppu, ret].
Bus_read_memory(b, p, addr) ==
    IF addr >= \h8000 THEN Ok(p, read_rom(b, addr))
    ELSE CASE addr \in 0..\h1FF -> Ok(p, MemGet(b.ram, BitAnd(addr, \h7FF)))
           [] addr \in \h2000..\h3FFF -> read_io_registers(p, BitAnd(addr, \hF) % 8)
           [] OTHER -> IF addr < CPU_INTERNAL_RAM THEN Ok(p, MemGet(b.ram, addr))
                       ELSE Panic(p)

\* A bus write whose register window repeats every 16 bytes instead of every 8.
Bus_write_memory_window16(b, p, addr, byte) ==
    LET io == write_io_registers(p, BitAnd(addr, \hF), byte)
        dma == oamdma(b, p, byte)
    IN CASE addr \in 0..\h1FF ->
               [fault |-> "none", ppu |-> p,
                bus |-> [b EXCEPT !.ram = MemSet(@, BitAnd(addr, \h7FF), byte)]]
         [] addr \in \h2000..\h3FFF -> [fault |-> io.fault, ppu |-> io.ppu, bus |-> b]
         [] addr = \h4014 -> [fault |-> dma.fault, ppu |-> dma.ppu, bus |-> b]
         [] OTHER -> IF addr < CPU_INTERNAL_RAM
                     THEN [fault |-> "none", ppu |-> p,
                           bus |-> [b EXCEPT !.ram = MemSet(@, addr, byte)]]
                     ELSE [fault |-> "panic", ppu |-> p, bus |-> b]

\* Returns [fault, bus, ppu].
Bus_write_memory(b, p, addr, byte) ==
    LET io == write_io_registers(p, BitAnd(addr, \hF) % 8, byte)
        dma == oamdma(b, p, byte)
    IN CASE addr \in 0..\h1FF ->
               [fault |-> "none", ppu |-> p,
                bus |-> [b EXCEPT !.ram = MemSet(@, BitAnd(addr, \h7FF), byte)]]
         [] addr \in \h2000..\h3FFF -> [fault |-> io.fault, ppu |-> io.ppu, bus |-> b]
         [] addr = \h4014 -> [fault |-> dma.fault, ppu |-> dma.ppu, bus |-> b]
         [] OTHER -> IF addr < CPU_INTERNAL_RAM
                     THEN [fault |-> "none", ppu |-> p,
                           bus |-> [b EXCEPT !.ram = MemSet(@, addr, byte)]]
                     ELSE [fault |-> "panic", ppu |-> p, bus |-> b]

\* The values a panic raised in Bus code formats into its message: the
\* register address of read_io_registers and write_io_registers, the bad
\* address of oamdma, the length and index of an array index out of bounds;
\* <<>> for a panic raised further down, in PPU code.
read_io_message(reg) == IF reg \in {2, 4, 7} THEN <<>> ELSE <<reg + \h2000>>

write_io_message(reg) == IF reg = 2 THEN <<reg + \h2000>> ELSE <<>>

oamdma_message(b, page) ==
    IF oamdma_byte(b, page * 256).fault # "none" THEN <<page * 256>> ELSE <<>>

Bus_read_message(addr) ==
    IF addr >= \h8000 \/ addr \in 0..\h1FF THEN <<>>
    ELSE IF addr \in \h2000..\h3FFF THEN read_io_message(BitAnd(addr, \hF) % 8)
    ELSE IF addr < CPU_INTERNAL_RAM THEN <<>>
    ELSE <<CPU_INTERNAL_RAM, addr>>

Bus_write_message(b, addr, byte) ==
    IF addr \in 0..\h1FF THEN <<>>
    ELSE IF addr \in \h2000..\h3FFF THEN write_io_message(BitAnd(addr, \hF) % 8)
    ELSE IF addr = \h4014 THEN oamdma_message(b, byte)
    ELSE IF addr < CPU_INTERNAL_RAM THEN <<>>
    ELSE <<CPU_INTERNAL_RAM, addr>>

\* --------------------------------------------------------------------- CPU

\* src/utils.rs
msb(value) == BitAnd(value, \h80) \div 128

join_hi_low(lo, hi) == BitOr(hi * 256, lo)

as_lo_hi(addr) == <<BitAnd(addr, \hFF), BitAnd(addr \div 256, \hFF)>>

get_bit(byte, n) == BitAnd(byte \div (2 ^ n), \h01)

\* CPU::new
CPU_new == [pc |-> \hC000, sp |-> \hFD, accum |-> 0, rx |-> 0, ry |-> 0, st |-> \h24]

\* Status flag setters, on the CPU's registers c.
get_st(c, n) == get_bit(c.st, n)

clear_st(c, n) == [c EXCEPT !.st = BitAnd(@, 255 - 2 ^ n)]

\* v << n is a u8 shift: the bits shifted past bit 7 are lost.
set_st_to(c, n, v) ==
    IF BitAnd(v, \h01) = 1
    THEN [c EXCEPT !.st = BitOr(@, (v * 2 ^ n) % 256)]
    ELSE clear_st(c, n)

set_st(c, n) == set_st_to(c, n, 1)

set_carry(c) == set_st(c, CARRY_FLAG - 1)
clear_carry(c) == clear_st(c, CARRY_FLAG - 1)
cond_set_carry(c, cond) == IF cond THEN set_carry(c) ELSE clear_carry(c)

set_zero(c) == set_st(c, ZERO_FLAG - 1)
clear_zero(c) == clear_st(c, ZERO_FLAG - 1)
cond_set_zero(c, cond) == IF cond THEN set_zero(c) ELSE clear_zero(c)

set_neg(c) == set_st(c, NEGATIVE_FLAG - 1)
clear_neg(c) == clear_st(c, NEGATIVE_FLAG - 1)
cond_set_neg(c, cond) == IF cond THEN set_neg(c) ELSE clear_neg(c)

clear_overflow(c) == clear_st(c, OVERFLOW_FLAG - 1)
clear_brk(c) == clear_st(c, BRK_CMD - 1)
set_decimal(c) == set_st(c, DECIMAL_MODE - 1)
clear_decmimal(c) == clear_st(c, DECIMAL_MODE - 1)
set_interrupt_disable(c) == set_st(c, INTERRUPT_DISABLE - 1)
clear_interrupt_disable(c) == clear_st(c, INTERRUPT_DISABLE - 1)

\* The zero and negative flags of a result byte.
zero_neg(c, result) == cond_set_neg(cond_set_zero(c, result = 0), msb(result) = 1)

\* adc, from the 9-bit sum next_accum on.
adc_sum(c, v, next_accum) ==
    [cond_set_neg(
        cond_set_zero(
            cond_set_carry(
                set_st_to(c, OVERFLOW_FLAG - 1,
                          msb(BitAnd(255 - BitXor(c.accum, v),
                                     BitXor(c.accum, next_accum % 256)))),
                next_accum > \hFF),
            next_accum % 256 = 0),
        msb(next_accum % 256) = 1)
     EXCEPT !.accum = next_accum % 256]

\* An adc that takes no carry in.
adc_no_carry_in(c, v) == adc_sum(c, v, c.accum + v)

adc(c, v) == adc_sum(c, v, c.accum + v + BitAnd(c.st, CARRY_FLAG))

\* An sbc that adds the operand as it is.
sbc_plain_operand(c, v) == adc(c, v)

sbc(c, v) == adc(c, 255 - v)

and(c, v) == [zero_neg(c, BitAnd(c.accum, v)) EXCEPT !.accum = BitAnd(c.accum, v)]

\* A bit test that takes the overflow and negative flags from A & M.
bit_of_masked(c, v) ==
    set_st_to(set_st_to(cond_set_zero(c, BitAnd(c.accum, v) = 0),
                        OVERFLOW_FLAG - 1, get_bit(BitAnd(c.accum, v), 6)),
              NEGATIVE_FLAG - 1, get_bit(BitAnd(c.accum, v), 7))

bit(c, v) ==
    set_st_to(set_st_to(cond_set_zero(c, BitAnd(c.accum, v) = 0),
                        OVERFLOW_FLAG - 1, get_bit(v, 6)),
              NEGATIVE_FLAG - 1, get_bit(v, 7))

cmp(c, v) ==
    cond_set_neg(cond_set_zero(cond_set_carry(c, c.accum >= v), c.accum = v),
                 msb((c.accum + 256 - v) % 256) = 1)

cpx(c, v) ==
    cond_set_neg(cond_set_zero(cond_set_carry(c, c.rx >= v), c.rx = v),
                 msb((c.rx + 256 - v) % 256) = 1)

cpy(c, v) ==
    cond_set_neg(cond_set_zero(cond_set_carry(c, c.ry >= v), c.ry = v),
                 msb((c.ry + 256 - v) % 256) = 1)

eor(c, v) == [zero_neg(c, BitXor(c.accum, v)) EXCEPT !.accum = BitXor(c.accum, v)]

ora(c, v) == [zero_neg(c, BitOr(c.accum, v)) EXCEPT !.accum = BitOr(c.accum, v)]

lda(c, v) == [zero_neg(c, v) EXCEPT !.accum = v]
ldx(c, v) == [zero_neg(c, v) EXCEPT !.rx = v]
ldy(c, v) == [zero_neg(c, v) EXCEPT !.ry = v]

\* The shifts and steps return [cpu, ret]: the flags and the result byte.
asl(c, v) ==
    [cpu |-> zero_neg(cond_set_carry(c, msb(v) = 1), (v * 2) % 256), ret |-> (v * 2) % 256]

lsr(c, v) ==
    [cpu |-> zero_neg(set_st_to(c, CARRY_FLAG - 1, BitAnd(v, \h01)), v \div 2),
     ret |-> v \div 2]

rol(c, v) ==
    [cpu |-> zero_neg(set_st_to(c, CARRY_FLAG - 1, msb(v)),
                      BitOr(BitAnd((v * 2) % 256, \hFE), get_st(c, CARRY_FLAG - 1))),
     ret |-> BitOr(BitAnd((v * 2) % 256, \hFE), get_st(c, CARRY_FLAG - 1))]

ror(c, v) ==
    [cpu |-> zero_neg(set_st_to(c, CARRY_FLAG - 1, BitAnd(v, \h01)),
                      BitOr(v \div 2, get_st(c, CARRY_FLAG - 1) * 128)),
     ret |-> BitOr(v \div 2, get_st(c, CARRY_FLAG - 1) * 128)]

dec(c, v) == [cpu |-> zero_neg(c, (v + 255) % 256), ret |-> (v + 255) % 256]

inc(c, v) == [cpu |-> zero_neg(c, (v + 1) % 256), ret |-> (v + 1) % 256]

\* The machine while one instruction runs: the CPU's registers, the bus and the
\* PPU it owns, the fault, the value and address an addressing function
\* returns (ret, addr), the bytes held in locals (lo, arg) and the bus accesses
\* made so far (log).
Machine(c, b, p) ==
    [cpu |-> c, bus |-> b, ppu |-> p, fault |-> "none", ret |-> 0, addr |-> 0,
     lo |-> 0, arg |-> 0, log |-> <<>>, message |-> <<>>]

overflowed(m) == [m EXCEPT !.fault = "panic"]

took_read(m, addr, r) ==
    [m EXCEPT !.fault = r.fault, !.ppu = r.ppu, !.ret = r.ret,
              !.log = Append(@, <<"read", addr>>),
              !.message = IF r.fault = "panic" THEN Bus_read_message(addr) ELSE @]

\* self.bus.read_memory(addr)
mem_read(m, addr) ==
    IF m.fault # "none" THEN m
    ELSE took_read(m, addr, Bus_read_memory(m.bus, m.ppu, addr))

took_write(m, addr, byte, r) ==
    [m EXCEPT !.fault = r.fault, !.ppu = r.ppu, !.bus = r.bus,
              !.log = Append(@, <<"write", addr>>),
              !.message = IF r.fault = "panic" THEN Bus_write_message(m.bus, addr, byte)
                          ELSE @]

\* self.bus.write_memory(addr, byte)
mem_write(m, addr, byte) ==
    IF m.fault # "none" THEN m
    ELSE took_write(m, addr, byte, Bus_write_memory(m.bus, m.ppu, addr, byte))

\* self.bus.read_memory(self.pc + k): the u16 addition overflows past 0xFFFF.
at_pc(m, k) ==
    IF m.fault # "none" THEN m
    ELSE IF m.cpu.pc + k > \hFFFF /\ overflow_checks THEN overflowed(m)
    ELSE mem_read(m, (m.cpu.pc + k) % 65536)

\* self.pc += n
advance_pc(m, n) ==
    IF m.fault # "none" THEN m
    ELSE IF m.cpu.pc + n > \hFFFF /\ overflow_checks THEN overflowed(m)
    ELSE [m EXCEPT !.cpu.pc = (@ + n) % 65536]

keep_lo(m) == [m EXCEPT !.lo = m.ret]
keep_arg(m) == [m EXCEPT !.arg = m.ret]

\* The two operand bytes at pc + 1 and pc + 2: lo in m.lo, hi in m.ret.
operand16(m) == at_pc(keep_lo(at_pc(m, 1)), 2)

\* The read at the zero-page address (m.ret + k) mod 256.
read_at_ret(m, k) ==
    mem_read([m EXCEPT !.addr = (m.ret + k) % 256], (m.ret + k) % 256)

\* The read at the address join_hi_low(m.lo, m.ret).wrapping_add(k).
read_at_word(m, k) ==
    mem_read([m EXCEPT !.addr = (join_hi_low(m.lo, m.ret) + k) % 65536],
             (join_hi_low(m.lo, m.ret) + k) % 65536)

\* The read of a pointer byte at the zero-page address (m.arg + k) mod 256.
read_ptr(m, k) == mem_read(m, (m.arg + k) % 256)

\* Addressing functions: each leaves the value in ret, the effective address in
\* addr and the program counter past the instruction.
immediate(m) == advance_pc(at_pc(m, 1), 2)

zero_page(m) == advance_pc(read_at_ret(at_pc(m, 1), 0), 2)

zero_page_x(m) == advance_pc(read_at_ret(at_pc(m, 1), m.cpu.rx), 2)

zero_page_y(m) == advance_pc(read_at_ret(at_pc(m, 1), m.cpu.ry), 2)

absolute(m) == advance_pc(read_at_word(operand16(m), 0), 3)

absolute_x(m) == advance_pc(read_at_word(operand16(m), m.cpu.rx), 3)

absolute_y(m) == advance_pc(read_at_word(operand16(m), m.cpu.ry), 3)

indirect_x(m) ==
    advance_pc(
        read_at_word(
            read_ptr(keep_lo(read_ptr(keep_arg(at_pc(m, 1)), m.cpu.rx)),
                     (m.cpu.rx + 1) % 256),
            0),
        2)

indirect_y(m) ==
    advance_pc(
        read_at_word(read_ptr(keep_lo(read_ptr(keep_arg(at_pc(m, 1)), 0)), 1),
                     m.cpu.ry),
        2)

\* Stack functions.
dec_sp(m) == IF m.fault # "none" THEN m ELSE [m EXCEPT !.cpu.sp = (@ + 255) % 256]

stack_push(m, byte) == dec_sp(mem_write(m, \h100 + m.cpu.sp, byte))

inc_sp(m) == IF m.fault # "none" THEN m ELSE [m EXCEPT !.cpu.sp = (@ + 1) % 256]

pop_read(m) == mem_read(m, \h100 + m.cpu.sp)

\* A pop that reads before it moves the stack pointer.
stack_pop_reads_first(m) == inc_sp(pop_read(m))

stack_pop(m) == pop_read(inc_sp(m))

\* self.pc = join_hi_low(lo, hi), then wrapping_add(k)
set_pc_word(m, k) ==
    IF m.fault # "none" THEN m
    ELSE [m EXCEPT !.cpu.pc = (join_hi_low(m.lo, m.ret) + k) % 65536]

brk(m) ==
    set_pc_word(
        mem_read(
            keep_lo(
                mem_read(
                    stack_push(
                        stack_push(stack_push(m, BitAnd(m.cpu.pc \div 256, \hFF)),
                                   BitAnd(m.cpu.pc, \hFF)),
                        BitOr(m.cpu.st, 2 ^ (BRK_CMD - 1))),
                    BRK_IH)),
            BRK_IH + 1),
        0)

\* exec_opcode's arms: the instruction and the addressing function of each
\* opcode byte the match names.
Arms ==
    \h00 :> <<"brk", "implied">> @@ \h01 :> <<"ora", "indirect_x">> @@ \h05 :> <<"ora", "zero_page">> @@
    \h06 :> <<"asl", "zero_page">> @@ \h08 :> <<"php", "implied">> @@ \h09 :> <<"ora", "immediate">> @@
    \h0A :> <<"asl", "accumulator">> @@ \h0D :> <<"ora", "absolute">> @@ \h0E :> <<"asl", "absolute">> @@
    \h10 :> <<"bpl", "relative">> @@ \h11 :> <<"ora", "indirect_y">> @@ \h15 :> <<"ora", "zero_page_x">> @@
    \h16 :> <<"asl", "zero_page_x">> @@ \h18 :> <<"clc", "implied">> @@ \h19 :> <<"ora", "absolute_y">> @@
    \h1D :> <<"ora", "absolute_x">> @@ \h1E :> <<"asl", "absolute_x">> @@ \h20 :> <<"jsr", "absolute">> @@
    \h21 :> <<"and", "indirect_x">> @@ \h24 :> <<"bit", "zero_page">> @@ \h25 :> <<"and", "zero_page">> @@
    \h26 :> <<"rol", "zero_page">> @@ \h28 :> <<"plp", "implied">> @@ \h29 :> <<"and", "immediate">> @@
    \h2A :> <<"rol", "accumulator">> @@ \h2C :> <<"bit", "absolute">> @@ \h2D :> <<"and", "absolute">> @@
    \h2E :> <<"rol", "absolute">> @@ \h30 :> <<"bmi", "relative">> @@ \h31 :> <<"and", "indirect_y">> @@
    \h35 :> <<"and", "zero_page_x">> @@ \h36 :> <<"rol", "zero_page_x">> @@ \h38 :> <<"sec", "implied">> @@
    \h39 :> <<"and", "absolute_y">> @@ \h3D :> <<"and", "absolute_x">> @@ \h3E :> <<"rol", "absolute_x">> @@
    \h40 :> <<"rti", "implied">> @@ \h41 :> <<"eor", "indirect_x">> @@ \h45 :> <<"eor", "zero_page">> @@
    \h46 :> <<"lsr", "zero_page">> @@ \h48 :> <<"pha", "implied">> @@ \h49 :> <<"eor", "immediate">> @@
    \h4A :> <<"lsr", "accumulator">> @@ \h4C :> <<"jmp", "absolute">> @@ \h4D :> <<"eor", "absolute">> @@
    \h4E :> <<"lsr", "absolute">> @@ \h50 :> <<"bvc", "relative">> @@ \h51 :> <<"eor", "indirect_y">> @@
    \h55 :> <<"eor", "zero_page_x">> @@ \h56 :> <<"lsr", "zero_page_x">> @@ \h58 :> <<"cli", "implied">> @@
    \h59 :> <<"eor", "absolute_y">> @@ \h5D :> <<"eor", "absolute_x">> @@ \h5E :> <<"lsr", "absolute_x">> @@
    \h60 :> <<"rts", "implied">> @@ \h61 :> <<"adc", "indirect_x">> @@ \h65 :> <<"adc", "zero_page">> @@
    \h66 :> <<"ror", "zero_page">> @@ \h68 :> <<"pla", "implied">> @@ \h69 :> <<"adc", "immediate">> @@
    \h6A :> <<"ror", "accumulator">> @@ \h6C :> <<"jmp", "indirect">> @@ \h6D :> <<"adc", "absolute">> @@
    \h6E :> <<"ror", "absolute">> @@ \h70 :> <<"bvs", "relative">> @@ \h71 :> <<"adc", "indirect_y">> @@
    \h75 :> <<"adc", "zero_page_x">> @@ \h76 :> <<"ror", "zero_page_x">> @@ \h78 :> <<"sei", "implied">> @@
    \h79 :> <<"adc", "absolute_y">> @@ \h7D :> <<"adc", "absolute_x">> @@ \h7E :> <<"ror", "absolute_x">> @@
    \h81 :> <<"sta", "indirect_x">> @@ \h84 :> <<"sty", "zero_page">> @@ \h85 :> <<"sta", "zero_page">> @@
    \h86 :> <<"stx", "zero_page">> @@ \h88 :> <<"dey", "implied">> @@ \h8A :> <<"txa", "implied">> @@
    \h8C :> <<"sty", "absolute">> @@ \h8D :> <<"sta", "absolute">> @@ \h8E :> <<"stx", "absolute">> @@
    \h90 :> <<"bcc", "relative">> @@ \h91 :> <<"sta", "indirect_y">> @@ \h94 :> <<"sty", "zero_page_x">> @@
    \h95 :> <<"sta", "zero_page_x">> @@ \h96 :> <<"stx", "zero_page_y">> @@ \h98 :> <<"tya", "implied">> @@
    \h99 :> <<"sta", "absolute_y">> @@ \h9A :> <<"txs", "implied">> @@ \h9D :> <<"sta", "absolute_x">> @@
    \hA0 :> <<"ldy", "immediate">> @@ \hA1 :> <<"lda", "indirect_x">> @@ \hA2 :> <<"ldx", "immediate">> @@
    \hA4 :> <<"ldy", "zero_page">> @@ \hA5 :> <<"lda", "zero_page">> @@ \hA6 :> <<"ldx", "zero_page">> @@
    \hA8 :> <<"tay", "implied">> @@ \hA9 :> <<"lda", "immediate">> @@ \hAA :> <<"tax", "implied">> @@
    \hAC :> <<"ldy", "absolute">> @@ \hAD :> <<"lda", "absolute">> @@ \hAE :> <<"ldx", "absolute">> @@
    \hB0 :> <<"bcs", "relative">> @@ \hB1 :> <<"lda", "indirect_y">> @@ \hB4 :> <<"ldy", "zero_page_x">> @@
    \hB5 :> <<"lda", "zero_page_x">> @@ \hB6 :> <<"ldx", "zero_page_y">> @@ \hB8 :> <<"clv", "implied">> @@
    \hB9 :> <<"lda", "absolute_y">> @@ \hBA :> <<"tsx", "implied">> @@ \hBC :> <<"ldy", "absolute_x">> @@
    \hBD :> <<"lda", "absolute_x">> @@ \hBE :> <<"ldx", "absolute_y">> @@ \hC0 :> <<"cpy", "immediate">> @@
    \hC1 :> <<"cmp", "indirect_x">> @@ \hC4 :> <<"cpy", "zero_page">> @@ \hC5 :> <<"cmp", "zero_page">> @@
    \hC6 :> <<"dec", "zero_page">> @@ \hC8 :> <<"iny", "implied">> @@ \hC9 :> <<"cmp", "immediate">> @@
    \hCA :> <<"dex", "implied">> @@ \hCC :> <<"cpy", "absolute">> @@ \hCD :> <<"cmp", "absolute">> @@
    \hCE :> <<"dec", "absolute">> @@ \hD0 :> <<"bne", "relative">> @@ \hD1 :> <<"cmp", "indirect_y">> @@
    \hD5 :> <<"cmp", "zero_page_x">> @@ \hD6 :> <<"dec", "zero_page_x">> @@ \hD8 :> <<"cld", "implied">> @@
    \hD9 :> <<"cmp", "absolute_y">> @@ \hDD :> <<"cmp", "absolute_x">> @@ \hDE :> <<"dec", "absolute_x">> @@
    \hE0 :> <<"cpx", "immediate">> @@ \hE1 :> <<"sbc", "indirect_x">> @@ \hE4 :> <<"cpx", "zero_page">> @@
    \hE5 :> <<"sbc", "zero_page">> @@ \hE6 :> <<"inc", "zero_page">> @@ \hE8 :> <<"inx", "implied">> @@
    \hE9 :> <<"sbc", "immediate">> @@ \hEA :> <<"nop", "implied">> @@ \hEC :> <<"cpx", "absolute">> @@
    \hED :> <<"sbc", "absolute">> @@ \hEE :> <<"inc", "absolute">> @@ \hF0 :> <<"beq", "relative">> @@
    \hF1 :> <<"sbc", "indirect_y">> @@ \hF5 :> <<"sbc", "zero_page_x">> @@ \hF6 :> <<"inc", "zero_page_x">> @@
    \hF8 :> <<"sed", "implied">> @@ \hF9 :> <<"sbc", "absolute_y">> @@ \hFD :> <<"sbc", "absolute_x">> @@
    \hFE :> <<"inc", "absolute_x">>

\* 0x4c JMP
jmp_absolute(m) == set_pc_word(operand16(m), 0)

\* 0x6c JMP: the vector's page in addr, its low byte in arg.
keep_vec(m) == [m EXCEPT !.arg = m.lo, !.addr = m.ret * 256]

read_vec(m, k) == mem_read(m, BitOr(m.addr, (m.arg + k) % 256))

\* An indirect jump that takes the high byte from the vector address plus one.
jmp_indirect_next_page(m) ==
    set_pc_word(
        mem_read(keep_lo(read_vec(keep_vec(operand16(m)), 0)),
                 (join_hi_low(operand16(m).lo, operand16(m).ret) + 1) % 65536),
        0)

jmp_indirect(m) ==
    set_pc_word(read_vec(keep_lo(read_vec(keep_vec(operand16(m)), 0)), 1), 0)

\* 0x20 JSR, from the return address self.pc + 2 on.
jsr_push(m, ret_addr) ==
    set_pc_word(
        operand16(stack_push(stack_push(m, as_lo_hi(ret_addr)[2]), as_lo_hi(ret_addr)[1])),
        0)

\* A jsr that pushes the address of the next instruction.
jsr_pushes_next(m) == jsr_push(m, (m.cpu.pc + 3) % 65536)

jsr(m) ==
    IF m.cpu.pc + 2 > \hFFFF /\ overflow_checks THEN overflowed(m)
    ELSE jsr_push(m, (m.cpu.pc + 2) % 65536)

\* 0x60 RTS
rts(m) == set_pc_word(stack_pop(keep_lo(stack_pop(m))), 1)

pull_st(m) == IF m.fault # "none" THEN m ELSE [m EXCEPT !.cpu.st = m.ret]

\* 0x40 RTI
rti(m) == set_pc_word(stack_pop(keep_lo(stack_pop(pull_st(stack_pop(m))))), 0)

\* 0x48 PHA
pha(m) == advance_pc(stack_push(m, m.cpu.accum), 1)

push_status(m) == stack_push(m, m.cpu.st)

\* A PHP that pushes the status byte as it is.
php_keeps_brk(m) == advance_pc(push_status(m), 1)

\* 0x08 PHP
php(m) == advance_pc(push_status([m EXCEPT !.cpu = clear_brk(@)]), 1)

pull_a(m) ==
    IF m.fault # "none" THEN m
    ELSE [m EXCEPT !.cpu = [zero_neg(@, m.ret) EXCEPT !.accum = m.ret]]

\* 0x68 PLA
pla(m) == advance_pc(pull_a(stack_pop(m)), 1)

\* 0x28 PLP
plp(m) == advance_pc(pull_st(stack_pop(m)), 1)

\* The branches: the status bit each tests and the value it branches on.
Branches ==
    [bcc |-> <<CARRY_FLAG - 1, 0>>, bcs |-> <<CARRY_FLAG - 1, 1>>,
     beq |-> <<ZERO_FLAG - 1, 1>>, bne |-> <<ZERO_FLAG - 1, 0>>,
     bmi |-> <<NEGATIVE_FLAG - 1, 1>>, bpl |-> <<NEGATIVE_FLAG - 1, 0>>,
     bvc |-> <<OVERFLOW_FLAG - 1, 0>>, bvs |-> <<OVERFLOW_FLAG - 1, 1>>]

\* if self.get_st(n) == want { self.pc += arg as u16 }
branch_taken(m, n, want) ==
    IF m.fault # "none" THEN m
    ELSE IF get_st(m.cpu, n) = want THEN advance_pc(m, m.ret)
    ELSE m

branch(m, n, want) == advance_pc(branch_taken(at_pc(m, 1), n, want), 2)

\* The instructions that take a value from an addressing function.
ValueOps == {"adc", "and", "bit", "cmp", "cpx", "cpy", "eor", "lda", "ldx", "ldy", "ora", "sbc"}

value_op(op, c, v) ==
    CASE op = "adc" -> adc(c, v)
      [] op = "and" -> and(c, v)
      [] op = "bit" -> bit(c, v)
      [] op = "cmp" -> cmp(c, v)
      [] op = "cpx" -> cpx(c, v)
      [] op = "cpy" -> cpy(c, v)
      [] op = "eor" -> eor(c, v)
      [] op = "lda" -> lda(c, v)
      [] op = "ldx" -> ldx(c, v)
      [] op = "ldy" -> ldy(c, v)
      [] op = "ora" -> ora(c, v)
      [] op = "sbc" -> sbc(c, v)

apply_value(m, op) ==
    IF m.fault # "none" THEN m ELSE [m EXCEPT !.cpu = value_op(op, m.cpu, m.ret)]

\* The instructions that rewrite a byte, in memory or in the accumulator.
ShiftOps == {"asl", "lsr", "rol", "ror", "inc", "dec"}

shift_op(op, c, v) ==
    CASE op = "asl" -> asl(c, v)
      [] op = "lsr" -> lsr(c, v)
      [] op = "rol" -> rol(c, v)
      [] op = "ror" -> ror(c, v)
      [] op = "inc" -> inc(c, v)
      [] op = "dec" -> dec(c, v)

rmw_write(m, r) == mem_write([m EXCEPT !.cpu = r.cpu], m.addr, r.ret)

rmw(m, op) == IF m.fault # "none" THEN m ELSE rmw_write(m, shift_op(op, m.cpu, m.ret))

acc_write(m, r) == advance_pc([m EXCEPT !.cpu = [r.cpu EXCEPT !.accum = r.ret]], 1)

\* The stores.
StoreOps == {"sta", "stx", "sty"}

stored_reg(op, c) ==
    CASE op = "sta" -> c.accum
      [] op = "stx" -> c.rx
      [] op = "sty" -> c.ry

store(m, op) == mem_write(m, m.addr, stored_reg(op, m.cpu))

\* The one-byte instructions that touch registers only.
implied_op(op, c) ==
    CASE op = "clc" -> clear_carry(c)
      [] op = "cld" -> clear_decmimal(c)
      [] op = "cli" -> clear_interrupt_disable(c)
      [] op = "clv" -> clear_overflow(c)
      [] op = "sec" -> set_carry(c)
      [] op = "sed" -> set_decimal(c)
      [] op = "sei" -> set_interrupt_disable(c)
      [] op = "dex" -> [zero_neg(c, (c.rx + 255) % 256) EXCEPT !.rx = (c.rx + 255) % 256]
      [] op = "dey" -> [zero_neg(c, (c.ry + 255) % 256) EXCEPT !.ry = (c.ry + 255) % 256]
      [] op = "inx" -> [zero_neg(c, (c.rx + 1) % 256) EXCEPT !.rx = (c.rx + 1) % 256]
      [] op = "iny" -> [zero_neg(c, (c.ry + 1) % 256) EXCEPT !.ry = (c.ry + 1) % 256]
      [] op = "tax" -> [zero_neg(c, c.accum) EXCEPT !.rx = c.accum]
      [] op = "tay" -> [zero_neg(c, c.accum) EXCEPT !.ry = c.accum]
      [] op = "tsx" -> [zero_neg(c, c.sp) EXCEPT !.rx = c.sp]
      [] op = "txa" -> [zero_neg(c, c.rx) EXCEPT !.accum = c.rx]
      [] op = "tya" -> [zero_neg(c, c.ry) EXCEPT !.accum = c.ry]
      [] op = "txs" -> [c EXCEPT !.sp = c.rx]
      [] op = "nop" -> c

fetch(m, mode) ==
    CASE mode = "immediate" -> immediate(m)
      [] mode = "zero_page" -> zero_page(m)
      [] mode = "zero_page_x" -> zero_page_x(m)
      [] mode = "zero_page_y" -> zero_page_y(m)
      [] mode = "absolute" -> absolute(m)
      [] mode = "absolute_x" -> absolute_x(m)
      [] mode = "absolute_y" -> absolute_y(m)
      [] mode = "indirect_x" -> indirect_x(m)
      [] mode = "indirect_y" -> indirect_y(m)

run_arm(m, op, mode) ==
    CASE op \in ValueOps -> apply_value(fetch(m, mode), op)
      [] op \in ShiftOps /\ mode = "accumulator" ->
            acc_write(m, shift_op(op, m.cpu, m.cpu.accum))
      [] op \in ShiftOps /\ mode # "accumulator" -> rmw(fetch(m, mode), op)
      [] op \in StoreOps -> store(fetch(m, mode), op)
      [] mode = "relative" -> branch(m, Branches[op][1], Branches[op][2])
      [] op = "brk" -> advance_pc(brk(m), 1)
      [] op = "jmp" /\ mode = "absolute" -> jmp_absolute(m)
      [] op = "jmp" /\ mode = "indirect" -> jmp_indirect(m)
      [] op = "jsr" -> jsr(m)
      [] op = "rts" -> rts(m)
      [] op = "rti" -> rti(m)
      [] op = "pha" -> pha(m)
      [] op = "php" -> php(m)
      [] op = "pla" -> pla(m)
      [] op = "plp" -> plp(m)
      [] OTHER -> advance_pc([m EXCEPT !.cpu = implied_op(op, @)], 1)

\* _ => panic!("Unexpected opcode found: ...")
unexpected_opcode(m, opcode) == [m EXCEPT !.fault = "panic", !.message = <<opcode>>]

exec_opcode(m, opcode) ==
    IF opcode \in DOMAIN Arms
    THEN run_arm(m, Arms[opcode][1], Arms[opcode][2])
    ELSE unexpected_opcode(m, opcode)

\* reset: X, Y and the status byte are zeroed and pc is read from the reset
\* vector of the banks the bus holds.
reset(m) ==
    set_pc_word(
        mem_read(keep_lo(mem_read([m EXCEPT !.cpu.rx = 0, !.cpu.ry = 0, !.cpu.st = 0],
                                  POWER_RESET_IH)),
                 POWER_RESET_IH + 1),
        0)

\* load_cartridge: reset, then the cartridge's program bytes are loaded.
load_cartridge(m, img) == [reset(m) EXCEPT !.bus = load_rom(@, img)]

\* One pass of run_debug's loop: the opcode is read at pc and executed.
exec_fetched(m) == IF m.fault # "none" THEN m ELSE exec_opcode(m, m.ret)

run_step(m) == exec_fetched(mem_read(m, m.cpu.pc))

\* CpuState::default(): the snapshot with every field zero.
CpuState_default ==
    [addr |-> 0, opcode |-> 0, a |-> 0, x |-> 0, y |-> 0, p |-> 0, sp |-> 0, cycles |-> 0]

\* CpuState::set_status: the status as the reference log shows it.
set_status(state, data) ==
    [state EXCEPT !.p = BitAnd(BitOr(data, \h20), \hEF)]

\* The snapshot debug_exec fills in and prints before it executes the opcode:
\* p is assigned from the status register, cycles keeps its default.
debug_exec(c, opcode) ==
    [CpuState_default EXCEPT !.opcode = opcode, !.addr = c.pc, !.a = c.accum,
                             !.x = c.rx, !.y = c.ry, !.sp = c.sp, !.p = c.st]

\* ----------------------------------------------------------------- actions

\* The PPU's registers, pin and counters, as history keeps them.
Regs(p) ==
    [ppuctrl |-> p.ppuctrl, ppustatus |-> p.ppustatus, oamaddr |-> p.oamaddr,
     ppuscroll |-> p.ppuscroll, ppuaddr |-> p.ppuaddr, ppudata |-> p.ppudata,
     nmi_pin |-> p.nmi_pin, cycles |-> p.cycles, scanline |-> p.scanline,
     w |-> p.internal_reg.w]

Op(name, addr, data, ret) == [op |-> name, addr |-> addr, data |-> data, ret |-> ret]

Idle == fault = "none" /\ tick_remaining = 0

BusRead(addr) ==
    /\ Idle
    /\ Len(last.trace) < MaxOps
    /\ LET r == Bus_read_memory(bus, ppu, addr)
       IN /\ ppu' = r.ppu
          /\ fault' = r.fault
          /\ last' = [step |-> "read", pre |-> Regs(ppu),
                      trace |-> Append(last.trace, Op("read", addr, 0, r.ret))]
          /\ message' = IF r.fault = "panic" THEN Bus_read_message(addr) ELSE message
    /\ UNCHANGED <<bus, overflow_checks, tick_remaining, cpu, insn>>

BusWrite(addr, byte) ==
    /\ Idle
    /\ Len(last.trace) < MaxOps
    /\ LET r == Bus_write_memory(bus, ppu, addr, byte)
       IN /\ bus' = r.bus
          /\ ppu' = r.ppu
          /\ fault' = r.fault
          /\ last' = [step |-> "write", pre |-> Regs(ppu),
                      trace |-> Append(last.trace, Op("write", addr, byte, 0))]
          /\ message' = IF r.fault = "panic" THEN Bus_write_message(bus, addr, byte)
                        ELSE message
    /\ UNCHANGED <<overflow_checks, tick_remaining, cpu, insn>>

LoadRom(img) ==
    /\ Idle
    /\ Len(last.trace) < MaxOps
    /\ bus' = load_rom(bus, img)
    /\ last' = [step |-> "load_rom", pre |-> Regs(ppu),
                trace |-> Append(last.trace, Op("load_rom", 0, img, 0))]
    /\ UNCHANGED <<ppu, overflow_checks, fault, tick_remaining, cpu, insn, message>>

LoadedTo(m) ==
    /\ cpu' = m.cpu
    /\ bus' = m.bus
    /\ ppu' = m.ppu
    /\ fault' = m.fault
    /\ message' = m.message

LoadCartridge(img) ==
    /\ Idle
    /\ Len(last.trace) < MaxOps
    /\ LoadedTo(load_cartridge(Machine(cpu, bus, ppu), img))
    /\ last' = [step |-> "load_cartridge", pre |-> Regs(ppu),
                trace |-> Append(last.trace, Op("load_cartridge", 0, img, 0))]
    /\ UNCHANGED <<overflow_checks, tick_remaining, insn>>

\* PPUBus::read_memory and PPUBus::write_memory called on the PPU's bus.
PpuBusRead(addr) ==
    /\ Idle
    /\ Len(last.trace) < MaxOps
    /\ fault' = PPUBus_read_memory(ppu.bus, addr).fault
    /\ last' = [step |-> "ppu_read", pre |-> Regs(ppu),
                trace |-> Append(last.trace,
                                 Op("ppu_read", addr, 0,
                                    PPUBus_read_memory(ppu.bus, addr).ret))]
    /\ UNCHANGED <<bus, ppu, overflow_checks, tick_remaining, cpu, insn, message>>

PpuBusWrite(addr, value) ==
    /\ Idle
    /\ Len(last.trace) < MaxOps
    /\ ppu' = [ppu EXCEPT !.bus = PPUBus_write_memory(ppu.bus, addr, value).bus]
    /\ fault' = PPUBus_write_memory(ppu.bus, addr, value).fault
    /\ last' = [step |-> "ppu_write", pre |-> Regs(ppu),
                trace |-> Append(last.trace, Op("ppu_write", addr, value, 0))]
    /\ UNCHANGED <<bus, overflow_checks, tick_remaining, cpu, insn, message>>

\* PPU::clear_generate_nmi: the NMI request is withdrawn.
ClearGenerateNmi ==
    /\ Idle
    /\ Len(last.trace) < MaxOps
    /\ ppu' = [ppu EXCEPT !.nmi_pin = FALSE]
    /\ last' = [step |-> "clear_generate_nmi", pre |-> Regs(ppu),
                trace |-> Append(last.trace, Op("clear_generate_nmi", 0, 0, 0))]
    /\ UNCHANGED <<bus, overflow_checks, fault, tick_remaining, cpu, insn, message>>

\* Frame::set_pixel called on the PPU's frame.
SetPixel(x, y, rgb) ==
    /\ Idle
    /\ Len(last.trace) < MaxOps
    /\ ppu' = [ppu EXCEPT !.curr_frame = set_pixel(@, x, y, rgb)]
    /\ last' = [step |-> "set_pixel", pre |-> Regs(ppu),
                trace |-> Append(last.trace, Op("set_pixel", <<x, y>>, rgb, 0))]
    /\ UNCHANGED <<bus, overflow_checks, fault, tick_remaining, cpu, insn, message>>

\* tick(cycles): `remaining` is set and the loop is entered; tick(0) returns at once.
Tick(cycles) ==
    /\ Idle
    /\ Len(last.trace) < MaxOps
    /\ tick_remaining' = cycles
    /\ last' = [step |-> "tick", pre |-> Regs(ppu),
                trace |-> Append(last.trace, Op("tick", 0, cycles, 0))]
    /\ UNCHANGED <<bus, ppu, overflow_checks, fault, cpu, insn, message>>

\* One pass of tick's loop.  `remaining` is never written in the loop.
TickPass ==
    /\ fault = "none"
    /\ tick_remaining > 0
    /\ LET r == tick_pass(ppu)
       IN /\ ppu' = r.ppu
          /\ fault' = r.fault
          /\ last' = [step |-> "tick_pass", pre |-> Regs(ppu), trace |-> last.trace]
    /\ UNCHANGED <<bus, overflow_checks, tick_remaining, cpu, insn, message>>

\* The bytes after the opcode, as the instruction will find them.
NoInsn ==
    [start |-> CPU_new, pre |-> CPU_new, fetched |-> FALSE, b1 |-> 0, b2 |-> 0,
     log |-> <<>>, state |-> CpuState_default]

Operand(k) == Bus_read_memory(bus, ppu, (cpu.pc + k) % 65536).ret

StepTo(m) ==
    /\ cpu' = m.cpu
    /\ bus' = m.bus
    /\ ppu' = m.ppu
    /\ fault' = m.fault
    /\ message' = m.message
    /\ insn' = [start |-> insn.start, pre |-> cpu,
                fetched |-> Bus_read_memory(bus, ppu, cpu.pc).fault = "none",
                b1 |-> Operand(1), b2 |-> Operand(2), log |-> m.log,
                state |-> debug_exec(cpu, Bus_read_memory(bus, ppu, cpu.pc).ret)]

\* One instruction: the opcode at pc is read and executed.
Step ==
    /\ Idle
    /\ Len(last.trace) < MaxOps
    /\ StepTo(run_step(Machine(cpu, bus, ppu)))
    /\ last' = [step |-> "step", pre |-> Regs(ppu),
                trace |-> Append(last.trace,
                                 Op("step", cpu.pc, Bus_read_memory(bus, ppu, cpu.pc).ret, 0))]
    /\ UNCHANGED <<overflow_checks, tick_remaining>>

\* ------------------------------------------------------------------ inputs

\* (address, byte) pairs written and addresses read through the bus.
BusWrites ==
    {<<\h00FF, \h5A>>, <<\h01FE, \h22>>, <<\h0200, \h33>>, <<\h0800, \h44>>,
     <<\h2003, \h01>>, <<\h4014, \h00>>, <<\h4014, \h01>>, <<\h4014, \h02>>,
     <<\h4014, \h80>>, <<\h8000, \h66>>, <<\h2002, \h80>>, <<\h200A, \h01>>,
     <<\h4015, \h01>>, <<\h7FFF, \h01>>}

BusReads == {\h00FF, \h08FF, \h2002, \h8000, \hC0FF, \h2005, \h3FF9, \h4000, \h4014}

\* The same for the PPU's register ports.
PpuWrites ==
    {<<\h2000, \h00>>, <<\h2000, \h80>>, <<\h2000, \h04>>, <<\h2005, \h11>>,
     <<\h2006, \h20>>, <<\h2006, \hFF>>, <<\h2006, \h05>>, <<\h2007, \h5A>>,
     <<\h2003, \hFF>>, <<\h2004, \h5A>>, <<\h3FFE, \h21>>}

PpuReads == {\h2002, \h2007, \h200A}

TickArgs == {0, 1}

\* ----------------------------------------------------------- specification

\* The state after PPU::new(), Bus::new(ppu), in either build.
Init ==
    /\ bus = Bus_new
    /\ ppu = PPU_new
    /\ overflow_checks \in BOOLEAN
    /\ fault = "none"
    /\ tick_remaining = 0
    /\ last = [step |-> "new", pre |-> Regs(PPU_new), trace |-> <<>>]
    /\ cpu = CPU_new
    /\ insn = NoInsn
    /\ message = <<>>

Next ==
    \/ \E w \in BusWrites : BusWrite(w[1], w[2])
    \/ \E a \in BusReads : BusRead(a)
    \/ \E img \in RomImages : LoadRom(img)
    \/ \E img \in RomImages : LoadCartridge(img)
    \/ \E n \in TickArgs : Tick(n)
    \/ TickPass
    \/ Step

Spec == Init /\ [][Next]_vars

\* The PPU's register ports as functions of the PPU state: the control and
\* status registers and the NMI pin start at any of the values below, with a
\* pattern table loaded, and the bus drives the ports.
PpuCtrls == {\h00, \h80}
PpuStatuses == {\h00, \h80}
ChrImage == (\h05 :> \hC3) @@ (\h0D :> \h0F) @@ (\h25 :> \h77) @@ (\h26 :> \h78)

InitPpu ==
    /\ bus = Bus_new
    /\ \E c \in PpuCtrls, st \in PpuStatuses, n \in BOOLEAN :
          ppu = [PPU_new EXCEPT !.ppuctrl = c, !.ppustatus = st, !.nmi_pin = n,
                                !.bus.chr_rom = ChrImage]
    /\ overflow_checks \in BOOLEAN
    /\ fault = "none"
    /\ tick_remaining = 0
    /\ last = [step |-> "new", pre |-> Regs(ppu), trace |-> <<>>]
    /\ cpu = CPU_new
    /\ insn = NoInsn
    /\ message = <<>>

NextPpu ==
    \/ \E w \in PpuWrites : BusWrite(w[1], w[2])
    \/ \E a \in PpuReads : BusRead(a)

SpecPpu == InitPpu /\ [][NextPpu]_vars

\* The tick loop as a function of the PPU state: the counters start at the
\* power-on values or at the end of a scanline's last cycle.
PpuTimings == {<<0, 0>>, <<340, 239>>, <<340, 240>>, <<340, 259>>, <<340, 260>>}

InitTick ==
    /\ bus = Bus_new
    /\ \E c \in PpuCtrls, st \in PpuStatuses, n \in BOOLEAN, t \in PpuTimings :
          ppu = [PPU_new EXCEPT !.ppuctrl = c, !.ppustatus = st, !.nmi_pin = n,
                                !.cycles = t[1], !.scanline = t[2],
                                !.bus.chr_rom = ChrImage]
    /\ overflow_checks \in BOOLEAN
    /\ fault = "none"
    /\ tick_remaining = 0
    /\ last = [step |-> "new", pre |-> Regs(ppu), trace |-> <<>>]
    /\ cpu = CPU_new
    /\ insn = NoInsn
    /\ message = <<>>

NextTick ==
    \/ \E n \in TickArgs : Tick(n)
    \/ TickPass

SpecTick == InitTick /\ [][NextTick]_vars

\* The CPU's instructions as functions of the CPU state: a program of one
\* instruction and its operand bytes is placed in RAM with the data it
\* addresses, the registers start at any of the values below, and the CPU
\* steps.  Two-byte programs start at 0x0010 and are followed by STA $01;
\* BIT $01, three-byte programs start at 0x0020.
Opcodes2 ==
    {\h69, \h65, \hE9, \hE5, \h24, \hA9, \h90, \hB0, \hF0, \hD0, \h30, \h10, \h50, \h70,
     \h00, \h08, \h48, \h02, \h91}
Opcodes3 == {\h20, \h4C, \h6C, \h2C, \h6D}
OperandBytes == {\h00, \h01, \h28, \h30, \h40, \h68, \h69, \h7F, \h80, \hFB, \hFF}
Accums == {\h00, \h50, \h80, \hFF}
Statuses == {\h24, \h34, \h6E, \hE4, \hE5}
StackPointers == {\hFD, \h01, \h00}

\* The data the programs address: a subroutine at 0x0030 (NOP; RTS), jump
\* vectors at 0x0040 and 0x00FF, a pointer to PPUCTRL at 0x0028, operands in
\* page zero, and the page after it.
ProgramData ==
    (\h00 :> \h02) @@ (\h01 :> \hC0) @@ (\h29 :> \h20) @@ (\h30 :> \hEA) @@ (\h31 :> \h60) @@
    (\h40 :> \h56) @@ (\h41 :> \h01) @@ (\h69 :> \h7F) @@ (\h7F :> \h80) @@
    (\h80 :> \hC0) @@ (\hFB :> \h40) @@ (\hFF :> \h34) @@ (\h100 :> \h07)

\* The instruction's opcode and first operand byte placed at address `at`.
Placed(ram, at, opcode, b1) == MemSet(MemSet(ram, at, opcode), at + 1, b1)

Program2(opcode, b1) ==
    Placed((\h12 :> \h85) @@ (\h13 :> \h01) @@ (\h14 :> \h24) @@ (\h15 :> \h01)
           @@ ProgramData, \h10, opcode, b1)

Program3(opcode, b1) == Placed(ProgramData, \h20, opcode, b1)

CpuStart(c, ram) ==
    /\ cpu = c
    /\ bus = [load_rom(Bus_new, 1) EXCEPT !.ram = ram]

InitCpu ==
    /\ \E a \in Accums, st \in Statuses, sp \in StackPointers, b1 \in OperandBytes :
          \/ \E opcode \in Opcodes2 :
                CpuStart([CPU_new EXCEPT !.pc = \h10, !.accum = a, !.st = st, !.sp = sp],
                         Program2(opcode, b1))
          \/ \E opcode \in Opcodes3 :
                CpuStart([CPU_new EXCEPT !.pc = \h20, !.accum = a, !.st = st, !.sp = sp],
                         Program3(opcode, b1))
    /\ ppu = PPU_new
    /\ overflow_checks \in BOOLEAN
    /\ fault = "none"
    /\ tick_remaining = 0
    /\ last = [step |-> "new", pre |-> Regs(PPU_new), trace |-> <<>>]
    /\ insn = [NoInsn EXCEPT !.start = cpu, !.pre = cpu]
    /\ message = <<>>

NextCpu == Step

SpecCpu == InitCpu /\ [][NextCpu]_vars

\* The PPU bus on its own: a cartridge's pattern bytes are loaded with each
\* mirroring mode, and the bus is read and written at the addresses below.
Mirrorings == {"Horizontal", "Vertical", "FourScreen"}

PatternImage ==
    (\h0005 :> \hC3) @@ (\h01FF :> \h0F) @@ (\h0200 :> \h3C) @@ (\h1FFE :> \h81)

PpuBusWrites ==
    {<<\h2005, \hA1>>, <<\h2405, \hA2>>, <<\h2805, \hA3>>, <<\h2C05, \hA4>>,
     <<\h3805, \hA5>>, <<\h3EFF, \hA6>>, <<\h3F00, \h11>>, <<\h3F10, \h12>>,
     <<\h3F14, \h13>>, <<\h3F08, \h14>>, <<\h3F3C, \h15>>, <<\h3FE5, \h16>>}

PpuBusReads ==
    {\h0005, \h01FF, \h0200, \h1FFE, \h2005, \h2C05, \h3C05, \h3F00, \h3F1C}

InitPpuBus ==
    /\ bus = Bus_new
    /\ \E mirroring \in Mirrorings :
          ppu = [PPU_new EXCEPT !.bus = load_chr_rom(PPUBus_new, PatternImage, mirroring)]
    /\ overflow_checks \in BOOLEAN
    /\ fault = "none"
    /\ tick_remaining = 0
    /\ last = [step |-> "new", pre |-> Regs(ppu), trace |-> <<>>]
    /\ cpu = CPU_new
    /\ insn = NoInsn
    /\ message = <<>>

NextPpuBus ==
    \/ \E w \in PpuBusWrites : PpuBusWrite(w[1], w[2])
    \/ \E a \in PpuBusReads : PpuBusRead(a)

SpecPpuBus == InitPpuBus /\ [][NextPpuBus]_vars

\* The tick loop interleaved with the register ports: the counters start at
\* the power-on values or at the end of a scanline's last cycle, with
\* vblank-started and the NMI request as tick leaves them on that scanline
\* (clear outside the vertical blank).
InVblank(scanline) == scanline \in VBLANK_SCANLINE..(LAST_SCANLINE - 1)

VblankWrites == {<<\h2000, \h00>>, <<\h2000, \h80>>, <<\h2005, \h11>>, <<\h2002, \h80>>}
VblankReads == {\h2002, \h2007}

InitVblank ==
    /\ bus = Bus_new
    /\ \E c \in PpuCtrls, st \in PpuStatuses, n \in BOOLEAN, t \in PpuTimings :
          /\ (st # 0 \/ n) => InVblank(t[2])
          /\ ppu = [PPU_new EXCEPT !.ppuctrl = c, !.ppustatus = st, !.nmi_pin = n,
                                   !.cycles = t[1], !.scanline = t[2],
                                   !.bus.chr_rom = ChrImage]
    /\ overflow_checks \in BOOLEAN
    /\ fault = "none"
    /\ tick_remaining = 0
    /\ last = [step |-> "new", pre |-> Regs(ppu), trace |-> <<>>]
    /\ cpu = CPU_new
    /\ insn = NoInsn
    /\ message = <<>>

NextVblank ==
    \/ \E n \in TickArgs : Tick(n)
    \/ TickPass
    \/ \E w \in VblankWrites : BusWrite(w[1], w[2])
    \/ \E a \in VblankReads : BusRead(a)
    \/ ClearGenerateNmi

SpecVblank == InitVblank /\ [][NextVblank]_vars

\* The frame on its own: Frame::new's zeroed buffer, and pixels set at the
\* coordinates and with the colours below.
Pixels == {<<0, 0>>, <<1, 0>>, <<2, 0>>, <<255, 0>>, <<0, 1>>, <<255, 239>>}
Colours == {<<1, 2, 3>>, <<9, 8, 7>>}

InitFrame ==
    /\ bus = Bus_new
    /\ ppu = PPU_new
    /\ overflow_checks \in BOOLEAN
    /\ fault = "none"
    /\ tick_remaining = 0
    /\ last = [step |-> "new", pre |-> Regs(ppu), trace |-> <<>>]
    /\ cpu = CPU_new
    /\ insn = NoInsn
    /\ message = <<>>

NextFrame == \E xy \in Pixels, rgb \in Colours : SetPixel(xy[1], xy[2], rgb)

SpecFrame == InitFrame /\ [][NextFrame]_vars

\* ------------------------------------------------------------------ claims

Trace == last.trace
Calls == Len(last.trace)
LastCall == last.trace[Len(last.trace)]

\* The PPU register a bus address in 0x2000-0x3FFF names.
IsPort(o, kind, reg) ==
    o.op = kind /\ o.addr \in \h2000..\h3FFF /\ BitAnd(o.addr, \hF) % 8 = reg

InRam(a) == a \in \h0000..\h1FFF

\* C1: for every a in 0x0000-0x1FFF, read(a) returns the byte read(a & 0x07FF)
\* returns, a byte written at a is read back at every address of the window
\* congruent to a modulo 0x0800, and none of these accesses faults.
C1_RamMirrored ==
    /\ \A a \in \h0000..\h1FFF :
          /\ Bus_read_memory(bus, ppu, a).fault = "none"
          /\ Bus_read_memory(bus, ppu, a).ret
                = Bus_read_memory(bus, ppu, BitAnd(a, \h7FF)).ret
    /\ (Calls > 0 /\ LastCall.op = "write" /\ InRam(LastCall.addr)) =>
          /\ fault = "none"
          /\ \A a \in \h0000..\h1FFF :
                (a % \h800 = LastCall.addr % \h800) =>
                    Bus_read_memory(bus, ppu, a).ret = LastCall.data

\* A pass of tick's loop has just moved the scanline counter from `from` to `to`.
Entered(from, to) ==
    last.step = "tick_pass" /\ last.pre.scanline = from /\ ppu.scanline = to

C3_ClearAt261 ==
    Entered(260, LAST_SCANLINE) =>
        ~contains(ppu.ppustatus, VBLANK_START) /\ ~ppu.nmi_pin

C3_Witness ==
    /\ Entered(260, LAST_SCANLINE)
    /\ contains(last.pre.ppustatus, VBLANK_START)
    /\ last.pre.nmi_pin
    /\ ~contains(ppu.ppustatus, VBLANK_START)
    /\ ~ppu.nmi_pin

\* C4: a PPUCTRL write raises the NMI pin exactly when the generate-NMI bit
\* was 0 before the write, is 1 after it and vblank-started is set; any other
\* write leaves the pin as it was.
C4_CtrlWriteEdge ==
    (Calls > 0 /\ IsPort(LastCall, "write", 0)) =>
        /\ fault = "none"
        /\ ppu.ppuctrl = LastCall.data
        /\ ppu.nmi_pin =
              (\/ last.pre.nmi_pin
               \/ /\ ~contains(last.pre.ppuctrl, GENERATE_NMI)
                  /\ contains(ppu.ppuctrl, GENERATE_NMI)
                  /\ contains(last.pre.ppustatus, VBLANK_START))

C4_Witness ==
    /\ Calls > 0
    /\ IsPort(LastCall, "write", 0)
    /\ ~contains(last.pre.ppuctrl, GENERATE_NMI)
    /\ contains(LastCall.data, GENERATE_NMI)
    /\ contains(last.pre.ppustatus, VBLANK_START)
    /\ ~last.pre.nmi_pin
    /\ ppu.nmi_pin

\* The number of PPUSCROLL and PPUADDR writes among the first k calls that follow
\* the last PPUSTATUS read among them.
RECURSIVE LatchWrites(_, _)
LatchWrites(tr, k) ==
    IF k = 0 \/ IsPort(tr[k], "read", 2) THEN 0
    ELSE (IF IsPort(tr[k], "write", 5) \/ IsPort(tr[k], "write", 6) THEN 1 ELSE 0)
            + LatchWrites(tr, k - 1)

\* C5: PPUSCROLL and PPUADDR share the latch w: a write to either with w clear
\* sets that register's first component, with w set its second, and flips w;
\* so w is the parity of the number of those writes since the last PPUSTATUS
\* read.
C5_SharedLatch ==
    /\ ppu.internal_reg.w = (LatchWrites(Trace, Calls) % 2 = 1)
    /\ (Calls > 0 /\ IsPort(LastCall, "write", 5)) =>
          /\ fault = "none"
          /\ ppu.internal_reg.w = ~last.pre.w
          /\ ppu.ppuaddr = last.pre.ppuaddr
          /\ ppu.ppuscroll =
                IF last.pre.w
                THEN <<last.pre.ppuscroll[1], LastCall.data>>
                ELSE <<LastCall.data, last.pre.ppuscroll[2]>>
    /\ (Calls > 0 /\ IsPort(LastCall, "write", 6)) =>
          /\ fault = "none"
          /\ ppu.internal_reg.w = ~last.pre.w
          /\ ppu.ppuscroll = last.pre.ppuscroll
          /\ ppu.ppuaddr =
                IF last.pre.w
                THEN <<last.pre.ppuaddr[1], LastCall.data>>
                ELSE <<LastCall.data, last.pre.ppuaddr[2]>>

\* A PPUADDR write lands in the second component because a PPUSCROLL write set
\* the latch before it.
C5_Witness ==
    /\ Calls = 3
    /\ IsPort(Trace[1], "write", 6)
    /\ IsPort(Trace[2], "write", 5)
    /\ IsPort(Trace[3], "write", 6)
    /\ ppu.internal_reg.w
    /\ ppu.ppuscroll = <<0, Trace[2].data>>
    /\ ppu.ppuaddr = <<Trace[3].data, 0>>

\* C6: a PPUSTATUS read leaves vblank-started clear and the latch w reset,
\* whatever they were, so the PPUSCROLL or PPUADDR write that follows it sets
\* the first component.
C6_StatusReadResets ==
    /\ (Calls > 0 /\ IsPort(LastCall, "read", 2)) =>
          /\ fault = "none"
          /\ ~contains(ppu.ppustatus, VBLANK_START)
          /\ ~ppu.internal_reg.w
    /\ (Calls > 1 /\ IsPort(Trace[Calls - 1], "read", 2)
          /\ IsPort(LastCall, "write", 5)) =>
          ppu.ppuscroll = <<LastCall.data, last.pre.ppuscroll[2]>>
    /\ (Calls > 1 /\ IsPort(Trace[Calls - 1], "read", 2)
          /\ IsPort(LastCall, "write", 6)) =>
          ppu.ppuaddr = <<LastCall.data, last.pre.ppuaddr[2]>>

\* A PPUSTATUS read found vblank-started and the latch set and cleared both.
C6_Witness ==
    /\ Calls > 0
    /\ IsPort(LastCall, "read", 2)
    /\ contains(last.pre.ppustatus, VBLANK_START)
    /\ last.pre.w
    /\ ~contains(ppu.ppustatus, VBLANK_START)
    /\ ~ppu.internal_reg.w

\* C7: after a PPUSTATUS read and two PPUADDR writes of hi then lo, the VRAM
\* address the next PPUDATA access uses is ((hi << 8) | lo) & 0x3FFF.
C7_AddrAssembled ==
    (/\ Calls >= 3
     /\ IsPort(Trace[Calls - 2], "read", 2)
     /\ IsPort(Trace[Calls - 1], "write", 6)
     /\ IsPort(LastCall, "write", 6)) =>
        /\ PPUADDR_get(ppu.ppuaddr).fault = "none"
        /\ PPUADDR_get(ppu.ppuaddr).ret
              = (Trace[Calls - 1].data * 256 + LastCall.data) % \h4000

\* C8: a PPUDATA read returns the byte the previous read buffered and refills
\* the buffer from the current VRAM address; so once PPUADDR is set to a, the
\* first read returns the stale buffer and leaves in the buffer, for the second
\* read to return, the byte stored at a.
C8_ReadBuffer ==
    /\ (Calls > 0 /\ IsPort(LastCall, "read", 7)) =>
          /\ fault = "none"
          /\ LastCall.ret = last.pre.ppudata
    /\ (/\ Calls = 3
        /\ IsPort(Trace[1], "write", 6)
        /\ IsPort(Trace[2], "write", 6)
        /\ IsPort(Trace[3], "read", 7)) =>
          ppu.ppudata
            = PPUBus_read_memory(ppu.bus, (Trace[1].data * 256 + Trace[2].data) % \h4000).ret

\* C9: every PPUDATA read and write advances the VRAM address by 1 when
\* PPUCTRL's increment-step bit is clear and by 32 when it is set, modulo 0x4000.
C9_AddrIncrement ==
    (Calls > 0 /\ (IsPort(LastCall, "read", 7) \/ IsPort(LastCall, "write", 7))) =>
        /\ fault = "none"
        /\ PPUADDR_get(ppu.ppuaddr).ret
              = (PPUADDR_get(last.pre.ppuaddr).ret
                   + (IF contains(last.pre.ppuctrl, VRAM_ADDR_INCR) THEN 32 ELSE 1))
                % \h4000

\* C10: for every page p in internal RAM (0x00-0x1F) or program ROM (0x80-0xFF),
\* a write of p to 0x4014 with OAMADDR = 0 leaves OAM[i] equal to the byte the
\* CPU reads at p * 256 + i, for every i in 0..255.
C10_DmaCopiesPage ==
    (/\ Calls > 0
     /\ LastCall.op = "write"
     /\ LastCall.addr = \h4014
     /\ LastCall.data \in (\h00..\h1F) \cup (\h80..\hFF)
     /\ last.pre.oamaddr = 0) =>
        /\ fault = "none"
        /\ \A i \in 0..255 :
              MemGet(ppu.oam, i)
                = Bus_read_memory(bus, ppu, LastCall.data * 256 + i).ret

\* C11: an OAMDATA write of d with OAMADDR = k stores d in OAM[k] and leaves
\* OAMADDR at (k + 1) mod 256 without a fault, for k = 255 too; and OAM stays
\* as constructed while no OAMDATA write and no OAM DMA has been made.
C11_OamDataWrite ==
    /\ (Calls > 0 /\ IsPort(LastCall, "write", 4)) =>
          /\ fault = "none"
          /\ MemGet(ppu.oam, last.pre.oamaddr) = LastCall.data
          /\ ppu.oamaddr = (last.pre.oamaddr + 1) % OAM_SIZE
    /\ (\A i \in 1..Calls :
            ~IsPort(Trace[i], "write", 4)
            /\ ~(Trace[i].op = "write" /\ Trace[i].addr = \h4014)) =>
          ppu.oam = EmptyMem

\* Addresses of the register window: its first sixteen, its last eight and
\* three in between.
PortSample == (\h2000..\h200F) \cup {\h2FF2, \h3456, \h3ABD} \cup (\h3FF0..\h3FF7)

\* C12: a bus read or write at an address a of 0x2000-0x3FFF does what the
\* port of register a mod 8 does (its fault, its result, its effect on the
\* PPU), and so the same as the access at a + 8.
C12_RegisterRouting ==
    \A a \in PortSample :
        /\ Bus_read_memory(bus, ppu, a) = read_io_registers(ppu, a % 8)
        /\ Bus_read_memory(bus, ppu, a) = Bus_read_memory(bus, ppu, a + 8)
        /\ \A d \in {\h21, \h80} :
              /\ Bus_write_memory(bus, ppu, a, d).ppu = write_io_registers(ppu, a % 8, d).ppu
              /\ Bus_write_memory(bus, ppu, a, d).fault
                    = write_io_registers(ppu, a % 8, d).fault
              /\ Bus_write_memory(bus, ppu, a, d).bus = bus
              /\ Bus_write_memory(bus, ppu, a, d) = Bus_write_memory(bus, ppu, a + 8, d)

C12_Witness ==
    /\ Calls >= 2
    /\ Trace[Calls - 1] = Op("read", \h200A, 0, Trace[Calls - 1].ret)
    /\ LastCall = Op("write", \h3FFE, \h21, 0)
    /\ fault = "none"
    /\ ppu.ppuaddr[1] = \h21
    /\ ppu.internal_reg.w

\* The image of the last load_rom or load_cartridge call, 0 (the zeroed banks)
\* before any.
RECURSIVE LoadedImage(_, _)
LoadedImage(tr, k) ==
    IF k = 0 THEN 0
    ELSE IF tr[k].op \in {"load_rom", "load_cartridge"} THEN tr[k].data
    ELSE LoadedImage(tr, k - 1)

\* Addresses of the ROM window: the ends of both halves and two in between.
RomSample == {\h8000, \h8001, \h9ABC, \hBFFF, \hC000, \hC001, \hDABC, \hFFFE, \hFFFF}

\* C13: a bus write at 0x8000 or above is rejected (the program stops in a
\* fault), and after any sequence of calls a read at a >= 0x8000 returns the
\* byte of the loaded image, the same at a and a + 0x4000.
C13_RomImmutable ==
    /\ \A a \in RomSample :
          /\ Bus_read_memory(bus, ppu, a).fault = "none"
          /\ Bus_read_memory(bus, ppu, a).ret
                = RomByte(LoadedImage(Trace, Calls), (a - \h8000) % ROM_BANK_SIZE)
          /\ a < \hC000 =>
                Bus_read_memory(bus, ppu, a).ret
                    = Bus_read_memory(bus, ppu, a + ROM_BANK_SIZE).ret
    /\ (Calls > 0 /\ LastCall.op = "write" /\ LastCall.addr >= \h8000) =>
          fault = "panic"

C13_Witness ==
    /\ Calls >= 2
    /\ LoadedImage(Trace, Calls) # 0
    /\ LastCall = Op("write", \h8000, \h66, 0)
    /\ fault = "panic"
    /\ Bus_read_memory(bus, ppu, \h8000).ret = RomByte(LoadedImage(Trace, Calls), 0)
    /\ Bus_read_memory(bus, ppu, \h8000).ret # \h66

\* ------------------------------------------------------------ CPU claims

\* The last call is the instruction with one of the opcodes ops.
Ran(ops) == Calls > 0 /\ LastCall.op = "step" /\ insn.fetched /\ LastCall.data \in ops

\* The writes of the last instruction, in order.
Writes == SelectSeq(insn.log, LAMBDA e : e[1] = "write")

Ram(a) == MemGet(bus.ram, a)

\* The stack address k above the one SP = sp names, within page one.
StackAt(sp, k) == \h100 + ((sp + k) % 256)

Bit(byte, n) == (byte \div (2 ^ n)) % 2

\* A branch opcode's condition, on a status byte.
BranchHolds(opcode, st) ==
    CASE opcode = \h90 -> Bit(st, 0) = 0
      [] opcode = \hB0 -> Bit(st, 0) = 1
      [] opcode = \hF0 -> Bit(st, 1) = 1
      [] opcode = \hD0 -> Bit(st, 1) = 0
      [] opcode = \h30 -> Bit(st, 7) = 1
      [] opcode = \h10 -> Bit(st, 7) = 0
      [] opcode = \h50 -> Bit(st, 6) = 0
      [] opcode = \h70 -> Bit(st, 6) = 1

Signed(b) == IF b < \h80 THEN b ELSE b - 256

\* C14: a branch at p with offset byte b leaves PC at p + 2 + signed(b) modulo
\* 2^16 when its condition holds and at p + 2 when it does not.
C14_BranchTarget ==
    Ran({\h90, \hB0, \hF0, \hD0, \h30, \h10, \h50, \h70}) =>
        /\ fault = "none"
        /\ cpu.pc = IF BranchHolds(LastCall.data, insn.pre.st)
                    THEN (LastCall.addr + 2 + Signed(insn.b1) + 65536) % 65536
                    ELSE LastCall.addr + 2

\* C15: BRK at p with SP = s writes PC high at 0x100 + s, PC low below it and
\* the status byte with bit 4 set below that, leaves SP at s - 3 and PC at the
\* word stored at 0xFFFE/0xFFFF.
C15_Brk ==
    Ran({\h00}) =>
        /\ fault = "none"
        /\ Writes = <<<<"write", StackAt(insn.pre.sp, 0)>>,
                      <<"write", StackAt(insn.pre.sp, 255)>>,
                      <<"write", StackAt(insn.pre.sp, 254)>>>>
        /\ Ram(StackAt(insn.pre.sp, 0)) * 256 + Ram(StackAt(insn.pre.sp, 255))
              \in LastCall.addr..(LastCall.addr + 2)
        /\ Ram(StackAt(insn.pre.sp, 254)) = BitOr(insn.pre.st, \h10)
        /\ cpu.sp = (insn.pre.sp + 253) % 256
        /\ cpu.pc = Bus_read_memory(bus, ppu, \hFFFE).ret
                      + 256 * Bus_read_memory(bus, ppu, \hFFFF).ret

\* C16: JSR at p pushes the high then the low byte of p + 2 and jumps to its
\* operand; RTS pops low then high and jumps to that address plus one; a JSR
\* at p whose subroutine leaves the stack as it found it returns to p + 3
\* with SP as before the JSR.
C16_JsrRts ==
    /\ Ran({\h20}) =>
          /\ fault = "none"
          /\ Writes = <<<<"write", StackAt(insn.pre.sp, 0)>>,
                        <<"write", StackAt(insn.pre.sp, 255)>>>>
          /\ Ram(StackAt(insn.pre.sp, 0)) = (LastCall.addr + 2) \div 256
          /\ Ram(StackAt(insn.pre.sp, 255)) = (LastCall.addr + 2) % 256
          /\ cpu.sp = (insn.pre.sp + 254) % 256
          /\ cpu.pc = insn.b1 + 256 * insn.b2
    /\ Ran({\h60}) =>
          /\ fault = "none"
          /\ cpu.sp = (insn.pre.sp + 2) % 256
          /\ cpu.pc = (Ram(StackAt(insn.pre.sp, 1))
                          + 256 * Ram(StackAt(insn.pre.sp, 2)) + 1) % 65536
    /\ (Calls = 3 /\ Trace[1].op = "step" /\ Trace[1].data = \h20
         /\ Trace[2].op = "step" /\ Trace[2].data = \hEA
         /\ Trace[3].op = "step" /\ Trace[3].data = \h60) =>
          /\ cpu.pc = Trace[1].addr + 3
          /\ cpu.sp = insn.start.sp

C16_Witness ==
    /\ Calls = 3
    /\ Trace[1] = Op("step", \h20, \h20, 0)
    /\ Trace[2] = Op("step", \h30, \hEA, 0)
    /\ Trace[3] = Op("step", \h31, \h60, 0)
    /\ insn.start.sp = \h01
    /\ Ram(\h101) = \h00
    /\ Ram(\h100) = \h22
    /\ cpu.pc = \h23
    /\ cpu.sp = \h01
    /\ fault = "none"

\* The n addresses after the last instruction's own are within memory.
Fits(n) == LastCall.addr + n <= \hFFFF

\* Memory that a read leaves as it is: RAM and the cartridge ROM.
Plain(a) == a < \h2000 \/ a >= \h8000

Mem(a) == Bus_read_memory(bus, ppu, a).ret

Word == insn.b1 + 256 * insn.b2

\* The reads of the last instruction, in order.
Reads == SelectSeq(insn.log, LAMBDA e : e[1] = "read")

\* C17: JMP indirect at p with vector v reads the low byte of the new PC at v
\* and the high byte at (v & 0xFF00) | ((v + 1) & 0x00FF), which is the start
\* of v's page when the low byte of v is 0xFF.
C17_JmpIndirect ==
    (Ran({\h6C}) /\ Fits(2) /\ Plain(Word)) =>
        /\ fault = "none"
        /\ Reads = <<<<"read", LastCall.addr>>, <<"read", LastCall.addr + 1>>,
                     <<"read", LastCall.addr + 2>>, <<"read", Word>>,
                     <<"read", BitOr(BitAnd(Word, \hFF00), BitAnd(Word + 1, \h00FF))>>>>
        /\ cpu.pc = Mem(Word)
                      + 256 * Mem(BitOr(BitAnd(Word, \hFF00), BitAnd(Word + 1, \h00FF)))

C17_Witness ==
    /\ Ran({\h6C})
    /\ LastCall.addr = \h20
    /\ Word = \h00FF
    /\ Ram(\hFF) = \h34 /\ Ram(\h00) = \h02 /\ Ram(\h100) = \h07
    /\ cpu.pc = \h0234
    /\ fault = "none"

\* The operand of the last instruction, whose immediate opcode is imm and
\* zero-page opcode is zp; any other opcode addresses it absolutely.
OperandOf(imm, zp) ==
    IF LastCall.data = imm THEN insn.b1
    ELSE IF LastCall.data = zp THEN Ram(insn.b1)
    ELSE Mem(Word)

\* The status bits named in mask are as before the instruction.
Kept(mask) == BitAnd(cpu.st, mask) = BitAnd(insn.pre.st, mask)

AdcResult(a, m, c) ==
    /\ cpu.accum = (a + m + c) % 256
    /\ Bit(cpu.st, 0) = (IF a + m + c > \hFF THEN 1 ELSE 0)
    /\ Bit(cpu.st, 6) = Bit(BitAnd(255 - BitXor(a, m), BitXor(a, (a + m + c) % 256)), 7)
    /\ Bit(cpu.st, 1) = (IF (a + m + c) % 256 = 0 THEN 1 ELSE 0)
    /\ Bit(cpu.st, 7) = Bit((a + m + c) % 256, 7)
    /\ Kept(\h3C)

\* C18: ADC with accumulator A, operand M and carry-in c leaves A = (A + M +
\* c) mod 256, Carry iff the sum exceeds 0xFF, Overflow iff bit 7 of
\* ~(A xor M) & (A xor result), Zero iff the result is 0, Negative iff bit 7
\* of the result, and status bits 2 to 5 as they were; from A = 0x00 and
\* status 0x6E, ADC #$69 leaves status 0x2C.
C18_Adc ==
    /\ (Ran({\h69, \h65, \h6D}) /\ Fits(3) /\ (LastCall.data = \h6D => Plain(Word))) =>
          /\ fault = "none"
          /\ AdcResult(insn.pre.accum, OperandOf(\h69, \h65), Bit(insn.pre.st, 0))
    /\ (Ran({\h69}) /\ insn.b1 = \h69 /\ insn.pre.accum = \h00 /\ insn.pre.st = \h6E) =>
          cpu.st = \h2C

C18_Witness ==
    /\ Ran({\h69})
    /\ insn.b1 = \h69
    /\ insn.pre.accum = \h00
    /\ insn.pre.st = \h6E
    /\ cpu.accum = \h69
    /\ cpu.st = \h2C
    /\ fault = "none"

\* The CPU after ADC #m executed at the last instruction's address from the
\* state that instruction started in.
AfterAdcImmediate(m) ==
    run_step(Machine(insn.pre,
                     [bus EXCEPT !.ram = Placed(bus.ram, insn.pre.pc, \h69, m)],
                     ppu)).cpu

SameAccumAndStatus(c) == cpu.accum = c.accum /\ cpu.st = c.st

\* C19: SBC with operand M leaves the accumulator and the status register
\* that ADC with operand M xor 0xFF leaves from the same state.
C19_SbcIsAdcComplement ==
    (Ran({\hE9, \hE5}) /\ Fits(3)) =>
        /\ fault = "none"
        /\ SameAccumAndStatus(AfterAdcImmediate(BitXor(OperandOf(\hE9, \hE5), \hFF)))

C19_Witness ==
    /\ Ran({\hE9})
    /\ insn.b1 = \h01
    /\ insn.pre.accum = \h50
    /\ insn.pre.st = \h24
    /\ cpu.accum = \h4E
    /\ cpu.st = \h25
    /\ fault = "none"

BitResult(a, m) ==
    /\ Bit(cpu.st, 1) = (IF BitAnd(a, m) = 0 THEN 1 ELSE 0)
    /\ Bit(cpu.st, 6) = Bit(m, 6)
    /\ Bit(cpu.st, 7) = Bit(m, 7)
    /\ Kept(\h3D)
    /\ cpu.accum = a

\* LDA #$00; STA $01; BIT $01 has run from 0x0010.
RanLdaStaBit ==
    /\ Calls = 3
    /\ Trace[1] = Op("step", \h10, \hA9, 0)
    /\ Trace[2] = Op("step", \h12, \h85, 0)
    /\ Trace[3] = Op("step", \h14, \h24, 0)
    /\ Ram(\h11) = \h00
    /\ insn.b1 = \h01

\* C20: BIT with operand M sets Zero iff A & M = 0, Overflow to bit 6 of M and
\* Negative to bit 7 of M, and leaves A and the other status bits alone; LDA
\* #$00; STA $01; BIT $01 from A = 0xFF and status 0xE4 ends with status 0x26
\* and PC six bytes on.
C20_Bit ==
    /\ (Ran({\h24, \h2C}) /\ Fits(3) /\ (LastCall.data = \h2C => Plain(Word))) =>
          /\ fault = "none"
          /\ BitResult(insn.pre.accum, IF LastCall.data = \h24 THEN Ram(insn.b1) ELSE Mem(Word))
    /\ (RanLdaStaBit /\ insn.start.accum = \hFF /\ insn.start.st = \hE4) =>
          /\ cpu.st = \h26
          /\ cpu.pc = Trace[1].addr + 6

C20_Witness ==
    /\ RanLdaStaBit
    /\ insn.start.accum = \hFF
    /\ insn.start.st = \hE4
    /\ cpu.st = \h26
    /\ cpu.pc = \h16
    /\ fault = "none"

\* PHP then PLP have run from 0x0010.
RanPhpPlp ==
    /\ Calls = 2
    /\ Trace[1] = Op("step", \h10, \h08, 0)
    /\ Trace[2] = Op("step", \h11, \h28, 0)

Pushes == (\h48 :> 1) @@ (\h08 :> 1) @@ (\h20 :> 2) @@ (\h00 :> 3)
Pops == (\h68 :> 1) @@ (\h28 :> 1) @@ (\h60 :> 2) @@ (\h40 :> 3)

\* The accesses of n pushes, and of n pops, from SP = sp.
PushAccesses(sp, n) == [k \in 1..n |-> <<"write", StackAt(sp, 257 - k)>>]
PopAccesses(sp, n) == [k \in 1..n |-> <<"read", StackAt(sp, k)>>]

InStackPage(e) == e[2] \in \h100..\h1FF

\* C22: a push writes at 0x0100 + SP and then decrements SP modulo 256, a pop
\* increments SP modulo 256 and then reads 0x0100 + SP, so every stack access
\* is within 0x0100-0x01FF, and a pop after a push returns the pushed byte.
C22_StackWraps ==
    /\ (Ran(DOMAIN Pushes) /\ Fits(3)) =>
          /\ fault = "none"
          /\ Writes = PushAccesses(insn.pre.sp, Pushes[LastCall.data])
          /\ \A k \in 1..Len(Writes) : InStackPage(Writes[k])
          /\ cpu.sp = (insn.pre.sp + 256 - Pushes[LastCall.data]) % 256
    /\ (Ran(DOMAIN Pops) /\ Fits(3)) =>
          /\ fault = "none"
          /\ SubSeq(Reads, 2, Len(Reads)) = PopAccesses(insn.pre.sp, Pops[LastCall.data])
          /\ \A k \in 2..Len(Reads) : InStackPage(Reads[k])
          /\ cpu.sp = (insn.pre.sp + Pops[LastCall.data]) % 256
    /\ (Ran({\h68, \h28}) /\ Calls >= 2 /\ Trace[Calls - 1].op = "step"
          /\ Trace[Calls - 1].data \in {\h48, \h08}) =>
          (IF LastCall.data = \h68 THEN cpu.accum ELSE cpu.st)
             = (IF Trace[Calls - 1].data = \h48 THEN insn.pre.accum ELSE insn.pre.st)

C22_Witness ==
    /\ Calls = 2
    /\ Trace[1] = Op("step", \h10, \h08, 0)
    /\ Trace[2] = Op("step", \h11, \h68, 0)
    /\ insn.start.sp = \h00
    /\ insn.start.st = \hE5
    /\ insn.start.accum = \h50
    /\ insn.pre.sp = \hFF
    /\ Reads[2] = <<"read", \h100>>
    /\ Ram(\h100) = \hE5
    /\ cpu.accum = \hE5
    /\ cpu.sp = \h00
    /\ fault = "none"

\* C23: after load_cartridge the program counter is the word at 0xFFFC/0xFFFD
\* of the program ROM just loaded, and X, Y and the status byte hold their
\* reset values.
C23_LoadCartridgeResets ==
    (Calls > 0 /\ LastCall.op = "load_cartridge") =>
        /\ fault = "none"
        /\ bus.rom_bank1 = LastCall.data /\ bus.rom_bank2 = LastCall.data
        /\ cpu.pc = Mem(POWER_RESET_IH) + 256 * Mem(POWER_RESET_IH + 1)
        /\ cpu.rx = 0 /\ cpu.ry = 0 /\ cpu.st = 0

\* The panic message carries the values a and b, as two of its fields.
Reports2(a, b) ==
    \E i, j \in DOMAIN message : i # j /\ message[i] = a /\ message[j] = b

\* The panic message carries the value a.
Reports(a) == \E i \in DOMAIN message : message[i] = a

\* C24: an opcode outside the implemented set stops the engine in a fault that
\* reports the opcode and the address it was fetched from, and changes no CPU
\* register and no memory.
C24_IllegalOpcode ==
    (Calls > 0 /\ LastCall.op = "step" /\ insn.fetched
        /\ LastCall.data \notin DOMAIN Arms) =>
        /\ fault = "panic"
        /\ cpu = insn.pre
        /\ Writes = <<>>
        /\ Reports2(LastCall.data, LastCall.addr)

\* A bus access that is to fault: a read of a write-only PPU register, a write
\* of PPUSTATUS, an access in 0x4000-0x7FFF other than a write of 0x4014.
Unmapped(op, addr) ==
    \/ op = "read" /\ addr \in \h2000..\h3FFF /\ BitAnd(addr, \hF) % 8 \in {0, 1, 3, 5, 6}
    \/ op = "write" /\ addr \in \h2000..\h3FFF /\ BitAnd(addr, \hF) % 8 = 2
    \/ op = "read" /\ addr \in \h4000..\h7FFF
    \/ op = "write" /\ addr \in \h4000..\h7FFF /\ addr # \h4014

\* The step is the bus access c.
Accessed(c) ==
    /\ Len(last'.trace) = Len(last.trace) + 1
    /\ c = last'.trace[Len(last'.trace)]
    /\ c.op \in {"read", "write"}

\* C25: a bus read of a write-only PPU register, a bus write of PPUSTATUS and
\* an access inside no mapped window is a fatal fault that reports the failing
\* address and changes no RAM, ROM or PPU state.
C25_BusFaults ==
    [][\A c \in {last'.trace[k] : k \in DOMAIN last'.trace} :
          (Accessed(c) /\ Unmapped(c.op, c.addr)) =>
              /\ fault' = "panic"
              /\ bus' = bus
              /\ ppu' = ppu
              /\ \E i \in DOMAIN message' : message'[i] = c.addr]_vars

PpuMem(addr) == PPUBus_read_memory(ppu.bus, addr)

\* Nametable addresses: three offsets of each logical table, in 0x2000-0x2FFF
\* and in its mirror 0x3000-0x3EFF.
NametableSample ==
    {\h2000 + t * \h400 + off : t \in 0..3, off \in {\h000, \h005, \h3FF}}
        \cup {\h3000 + t * \h400 + off : t \in 0..3, off \in {\h000, \h005, \h2FF}}

\* The 1KB half of the physical tables that logical table t maps to.
PhysicalTable(t, mirroring) ==
    IF mirroring = "Vertical" THEN t % 2 ELSE t \div 2

\* The physical offset of nametable address addr.
Physical(addr, mirroring) ==
    (PhysicalTable(((addr - \h2000) % \h1000) \div \h400, mirroring) * \h400)
        + ((addr - \h2000) % \h400)

Mirrored(addr) == mirror_nametable_addr(addr, ppu.bus.mirroring)

\* C27: with Vertical or Horizontal mirroring a nametable address in
\* 0x2000-0x2FFF or its mirror in 0x3000-0x3EFF maps to a physical offset
\* below 0x800 that keeps the offset within the 1KB table: Vertical maps
\* tables 0 and 2 to 0x000-0x3FF and 1 and 3 to 0x400-0x7FF, Horizontal maps 0
\* and 1 to 0x000-0x3FF and 2 and 3 to 0x400-0x7FF; reads and writes go there.
C27_NametableMirror ==
    ppu.bus.mirroring \in {"Vertical", "Horizontal"} =>
        /\ \A a \in NametableSample :
              /\ Mirrored(a).fault = "none"
              /\ Mirrored(a).ret < \h800
              /\ Mirrored(a).ret = Physical(a, ppu.bus.mirroring)
        /\ ppu.bus.mirroring = "Vertical" =>
              Mirrored(\h2805).ret = \h005 /\ Mirrored(\h2C05).ret = \h405
        /\ ppu.bus.mirroring = "Horizontal" =>
              Mirrored(\h2805).ret = \h405 /\ Mirrored(\h2405).ret = \h005
        /\ (Calls > 0 /\ LastCall.op = "ppu_write" /\ LastCall.addr \in \h2000..\h3EFF) =>
              /\ fault = "none"
              /\ MemGet(ppu.bus.name_tables, Physical(LastCall.addr, ppu.bus.mirroring))
                    = LastCall.data
        /\ (Calls > 0 /\ LastCall.op = "ppu_read" /\ LastCall.addr \in \h2000..\h3EFF) =>
              /\ fault = "none"
              /\ LastCall.ret
                    = MemGet(ppu.bus.name_tables, Physical(LastCall.addr, ppu.bus.mirroring))

C27_Witness ==
    /\ ppu.bus.mirroring = "Vertical"
    /\ Calls = 2
    /\ Trace[1] = Op("ppu_write", \h2805, \hA3, 0)
    /\ Trace[2] = Op("ppu_read", \h2005, 0, \hA3)
    /\ MemGet(ppu.bus.name_tables, \h005) = \hA3
    /\ fault = "none"

\* C28: reads at 0x3F10, 0x3F14, 0x3F18 and 0x3F1C return the bytes at 0x3F00,
\* 0x3F04, 0x3F08 and 0x3F0C, a write to either alias being seen at the other,
\* and every address in 0x3F00-0x3FFF reads as 0x3F00 plus its offset modulo 32.
C28_PaletteMirror ==
    /\ \A k \in {\h0, \h4, \h8, \hC} :
          /\ PpuMem(\h3F10 + k).fault = "none"
          /\ PpuMem(\h3F10 + k).ret = PpuMem(\h3F00 + k).ret
    /\ \A a \in \h3F00..\h3FFF :
          /\ PpuMem(a).fault = "none"
          /\ PpuMem(a).ret = PpuMem(\h3F00 + ((a - \h3F00) % 32)).ret
    /\ (Calls > 0 /\ LastCall.op = "ppu_write" /\ LastCall.addr \in \h3F00..\h3FFF) =>
          /\ fault = "none"
          /\ PpuMem(LastCall.addr).ret = LastCall.data
          /\ (LastCall.addr - \h3F00) % 4 = 0 =>
                /\ PpuMem(\h3F00 + ((LastCall.addr - \h3F00) % 16)).ret = LastCall.data
                /\ PpuMem(\h3F10 + ((LastCall.addr - \h3F00) % 16)).ret = LastCall.data
    /\ (Calls > 0 /\ LastCall.op = "ppu_read" /\ LastCall.addr \in \h3F00..\h3FFF) =>
          /\ fault = "none"
          /\ LastCall.ret = PpuMem(LastCall.addr).ret

C28_Witness ==
    /\ Calls = 2
    /\ Trace[1] = Op("ppu_write", \h3F10, \h12, 0)
    /\ Trace[2] = Op("ppu_read", \h3F00, 0, \h12)
    /\ PpuMem(\h3F10).ret = \h12
    /\ fault = "none"

\* C29: a read at an address in 0x0000-0x1FFF returns the pattern byte loaded
\* at that offset, without a fault.
C29_PatternReads ==
    (Calls > 0 /\ LastCall.op = "ppu_read" /\ LastCall.addr \in \h0000..\h1FFF) =>
        /\ fault = "none"
        /\ LastCall.ret = MemGet(PatternImage, LastCall.addr)

\* C30: with FourScreen mirroring a read or a write at a nametable address, in
\* any of the four logical tables, ends in a fault and stores no byte.
C30_FourScreen ==
    ppu.bus.mirroring = "FourScreen" =>
        /\ ppu.bus.name_tables = EmptyMem
        /\ (Calls > 0 /\ LastCall.op \in {"ppu_read", "ppu_write"}
              /\ LastCall.addr \in \h2000..\h3EFF) => fault # "none"

\* ------------------------------------------------------------ trace claims

\* The snapshot of the last step, produced once its opcode was fetched.
Snapshot == insn.state
Stepped == Calls > 0 /\ LastCall.op = "step" /\ insn.fetched

\* C31: in the snapshot of every step the status byte has bit 5 set, bit 4
\* clear and its other six bits equal to the status register before the step.
C31_SnapshotStatus ==
    Stepped =>
        /\ BitAnd(Snapshot.p, \h20) = \h20
        /\ BitAnd(Snapshot.p, \h10) = 0
        /\ BitAnd(Snapshot.p, \hCF) = BitAnd(insn.pre.st, \hCF)

\* The reference run's start: the registers of CPU::new (PC = 0xC000, status
\* 0x24, A = X = Y = 0, SP = 0xFD) and the cycle count 7.
ReferenceStartCycles == 7
AtReferenceStart == Calls = 2 /\ Trace[1].op = "load_rom" /\ insn.pre = CPU_new

\* C33: the snapshot taken at the first instruction of the reference run has
\* the fields of the reference trace's first line: the start address, the
\* opcode the program holds there, the start registers and status, and the
\* start cycle count (and so on for the following instructions).
C33_ReferenceTrace ==
    (Stepped /\ AtReferenceStart) =>
        Snapshot = [addr |-> \hC000,
                    opcode |-> RomByte(Trace[1].data, \hC000 % ROM_BANK_SIZE),
                    a |-> 0, x |-> 0, y |-> 0, p |-> \h24, sp |-> \hFD,
                    cycles |-> ReferenceStartCycles]

\* ------------------------------------------------------------- tick claims

\* The call of tick is still in its loop after the last pass.
InTick == last.step = "tick_pass" /\ fault = "none" /\ tick_remaining > 0

\* C34: tick(n) returns after finitely many passes of its loop: a pass that
\* leaves the call in the loop has changed the PPU's counters or the count of
\* remaining cycles, so the loop never goes round in an unchanged state.
C34_TickReturns ==
    InTick =>
        \/ Regs(ppu) # last.pre
        \/ tick_remaining < Trace[Calls].data

\* C35: repeated tick calls take the PPU through the frame without a fault:
\* no pass of tick faults; a pass made before the end of a line moves the
\* cycle counter on, towards the line's end; the pass that enters scanline 241
\* with generate-NMI set asserts the NMI request, the pass that enters 261
\* withdraws it, and the pass after scanline 261 returns to scanline 0.
C35_FrameProgress ==
    last.step = "tick_pass" =>
        /\ fault = "none"
        /\ last.pre.cycles < LAST_CYCLE => ppu.cycles > last.pre.cycles
        /\ (last.pre.cycles = LAST_CYCLE /\ last.pre.scanline = VBLANK_SCANLINE - 1
               /\ contains(last.pre.ppuctrl, GENERATE_NMI)) =>
              ppu.scanline = VBLANK_SCANLINE /\ ppu.nmi_pin
        /\ (last.pre.cycles = LAST_CYCLE /\ last.pre.scanline = LAST_SCANLINE - 1) =>
              ppu.scanline = LAST_SCANLINE /\ ~ppu.nmi_pin
        /\ (last.pre.cycles = LAST_CYCLE /\ last.pre.scanline = LAST_SCANLINE) =>
              ppu.scanline = 0

\* ------------------------------------------------------------ store claims

\* STA zero page and STA (indirect),Y.
StoreOpcodes == {\h85, \h91}

\* The address the last store addresses: its operand byte for zero page; the
\* word the operand byte points at, plus Y, for (indirect),Y as the program's
\* first instruction.
EffectiveAddress ==
    IF LastCall.data = \h85 THEN insn.b1
    ELSE (MemGet(ProgramData, insn.b1) + 256 * MemGet(ProgramData, (insn.b1 + 1) % 256)
          + insn.pre.ry) % 65536

RanStore == Ran(StoreOpcodes) /\ (LastCall.data = \h91 => Calls = 1)

\* PPU registers that are written and never read back, PPUDATA, and the
\* OAM-DMA trigger.
WriteOnlyPorts == {\h2000, \h2005, \h2006, \h2007, \h4014}

\* C36: a store makes exactly one bus write, to its effective address, and no
\* bus read of that address; to a write-only PPU register, PPUDATA or the
\* OAM-DMA trigger it ends without a fault, the PPU being as that one write
\* leaves it.
C36_StoreWritesOnce ==
    RanStore =>
        /\ Writes = <<<<"write", EffectiveAddress>>>>
        /\ \A i \in DOMAIN Reads : Reads[i][2] # EffectiveAddress
        /\ EffectiveAddress \in WriteOnlyPorts =>
              /\ fault = "none"
              /\ ppu = Bus_write_memory(bus, PPU_new, EffectiveAddress, insn.pre.accum).ppu

\* ----------------------------------------------------------- vblank claims

PixelBase(xy) == 3 * (xy[2] * FRAME_WIDTH + xy[1])

\* The byte at offset j after the calls tr[1..k]: the component the last call
\* whose pixel holds j gave it, 0 (Frame::new) when no call's pixel holds j.
RECURSIVE FrameByte(_, _, _)
FrameByte(tr, k, j) ==
    IF k = 0 THEN 0
    ELSE IF j \in PixelBase(tr[k].addr)..(PixelBase(tr[k].addr) + 2)
    THEN tr[k].data[j - PixelBase(tr[k].addr) + 1]
    ELSE FrameByte(tr, k - 1, j)

PixelBytes == UNION {PixelBase(xy)..(PixelBase(xy) + 2) : xy \in Pixels}

\* C38: set_pixel(x, y, rgb) writes the three bytes of pixel (x, y) and no
\* other byte, within the buffer: every byte of the frame is the component
\* that the last set_pixel at its own pixel gave it.
C38_SetPixel ==
    /\ \A j \in DOMAIN ppu.curr_frame : j < FRAME_WIDTH * FRAME_HEIGHT * 3
    /\ \A j \in PixelBytes \cup DOMAIN ppu.curr_frame :
          MemGet(ppu.curr_frame, j) = FrameByte(Trace, Calls, j)

\* C39: whenever vblank-started or the NMI request is set, the scanline
\* counter is within 241..260, whatever ticks and register reads and writes
\* came before.
C39_VblankWindow ==
    (contains(ppu.ppustatus, VBLANK_START) \/ ppu.nmi_pin) => InVblank(ppu.scanline)

\* After a PPUCTRL write that set generate-NMI outside the vertical blank, a
\* pass of tick entered scanline 241 and set both.
C39_Witness ==
    /\ Calls = 2
    /\ IsPort(Trace[1], "write", 0)
    /\ last.step = "tick_pass"
    /\ last.pre.scanline = VBLANK_SCANLINE - 1
    /\ ~last.pre.nmi_pin
    /\ ppu.scanline = VBLANK_SCANLINE
    /\ contains(ppu.ppustatus, VBLANK_START)
    /\ ppu.nmi_pin
    /\ fault = "none"

\* C40: PHP changes only the stack pointer, the program counter and the one
\* stack byte it writes: the status register, A, X and Y are after PHP as they
\* were before it, whatever the status, Break set included.
C40_PhpFrame ==
    (Ran({\h08}) /\ Fits(3)) =>
        /\ fault = "none"
        /\ cpu.st = insn.pre.st
        /\ cpu.accum = insn.pre.accum
        /\ cpu.rx = insn.pre.rx
        /\ cpu.ry = insn.pre.ry
        /\ cpu.sp = (insn.pre.sp + 255) % 256
        /\ cpu.pc = insn.pre.pc + 1
        /\ Writes = <<<<"write", StackAt(insn.pre.sp, 0)>>>>

====
